---- MODULE Spec2Model ----
(***************************************************************************)
(* Resilience layer of Git-Metrics-Detector: the LLM provider fallback     *)
(* chain (services/llm/provider_chain.py) and the batch planner            *)
(* (utils/token_estimator.py) with its call site in run_analysis.          *)
(*                                                                         *)
(* Text is modelled as a tuple of one-character strings wherever the code  *)
(* inspects its characters (the retriable-marker test on error messages).  *)
(***************************************************************************)
EXTENDS Integers, Sequences, FiniteSets, TLC

\* ------------------------------------------------------------------------
\* Bounds of the model
\* ------------------------------------------------------------------------
MaxProviders == 3

MaxFiles == 4

MaxEqualDocs == 10

\* ------------------------------------------------------------------------
\* Program constants
\* ------------------------------------------------------------------------
\* one attempt too many
MAX_RETRIES_OneMore == 3 + 1

MAX_RETRIES_PER_PROVIDER == 3

RATE_LIMIT_RETRY_DELAY == 5

BACKOFF_CAP == 60

\* CHARS_PER_TOKEN = 3.5, kept as tenths
CHARS_PER_TOKEN_X10 == 35

MAX_TOKENS_PER_BATCH == 800000

\* int(MAX_TOKENS_PER_BATCH * CHARS_PER_TOKEN)
MAX_CHARS_PER_BATCH == (MAX_TOKENS_PER_BATCH * CHARS_PER_TOKEN_X10) \div 10

\* per-file formatting overhead of create_batches
FILE_OVERHEAD == 20

\* run_analysis plans with a quarter of the chain's context window
BATCH_LIMIT_PERCENT == 25

\* ------------------------------------------------------------------------
\* Small helpers
\* ------------------------------------------------------------------------
Range(s) == {s[i] : i \in 1..Len(s)}

Min2(a, b) == IF a <= b THEN a ELSE b

SetMin(S) == CHOOSE x \in S : \A y \in S : x <= y

RECURSIVE Pow2(_)
Pow2(k) == IF k = 0 THEN 1 ELSE 2 * Pow2(k - 1)

\* ------------------------------------------------------------------------
\* Text as character tuples: str.lower() and the `in` substring test
\* ------------------------------------------------------------------------
LowerChar(c) ==
    CASE c = "A" -> "a" [] c = "B" -> "b" [] c = "C" -> "c" [] c = "D" -> "d"
      [] c = "E" -> "e" [] c = "F" -> "f" [] c = "G" -> "g" [] c = "H" -> "h"
      [] c = "I" -> "i" [] c = "J" -> "j" [] c = "K" -> "k" [] c = "L" -> "l"
      [] c = "M" -> "m" [] c = "N" -> "n" [] c = "O" -> "o" [] c = "P" -> "p"
      [] c = "Q" -> "q" [] c = "R" -> "r" [] c = "S" -> "s" [] c = "T" -> "t"
      [] c = "U" -> "u" [] c = "V" -> "v" [] c = "W" -> "w" [] c = "X" -> "x"
      [] c = "Y" -> "y" [] c = "Z" -> "z" [] OTHER -> c

Lower(s) == [i \in 1..Len(s) |-> LowerChar(s[i])]

Contains(s, m) ==
    \E i \in 1..(Len(s) - Len(m) + 1) : SubSeq(s, i, i + Len(m) - 1) = m

\* the keyword list of provider_chain.py line 62
RetriableMarkers ==
    { <<"4", "2", "9">>,
      <<"r", "a", "t", "e">>,
      <<"q", "u", "o", "t", "a">>,
      <<"r", "e", "s", "o", "u", "r", "c", "e">>,
      <<"l", "i", "m", "i", "t">>,
      <<"e", "m", "p", "t", "y", " ", "r", "e", "s", "p", "o", "n", "s", "e">> }

\* ------------------------------------------------------------------------
\* Exceptions an adapter's generate can raise: [type, msg], msg = str(e)
\* ------------------------------------------------------------------------
Msg429 == <<"4", "2", "9", " ", "T", "o", "o", " ", "M", "a", "n", "y", " ",
            "R", "e", "q", "u", "e", "s", "t", "s">>

MsgEmptyResponse == <<"G", "e", "m", "i", "n", "i", " ", "e", "m", "p", "t", "y",
                      " ", "r", "e", "s", "p", "o", "n", "s", "e">>

MsgUnauthorized == <<"4", "0", "1", " ", "U", "n", "a", "u", "t", "h", "o", "r",
                     "i", "z", "e", "d">>

RateLimitError == [type |-> "HTTPStatusError", msg |-> Msg429]

EmptyResponseError == [type |-> "ValueError", msg |-> MsgEmptyResponse]

AuthError == [type |-> "HTTPStatusError", msg |-> MsgUnauthorized]

BlankError == [type |-> "TimeoutError", msg |-> <<>>]

Texts == {"ok", "{}"}

\* what an adapter's backend call can raise; only GeminiProvider.generate
\* raises the "empty response" ValueError itself
AdapterErrors(p) ==
    {RateLimitError, AuthError, BlankError} \cup
    (IF p = "GeminiProvider" THEN {EmptyResponseError} ELSE {})

\* every way one awaited provider.generate(...) can end
Outcomes(p) ==
    [kind : {"ok"}, text : Texts] \cup [kind : {"error"}, exc : AdapterErrors(p)]

\* ------------------------------------------------------------------------
\* Adapters: ProviderConfig of each concrete provider class
\* ------------------------------------------------------------------------
ProviderClasses ==
    {"GeminiProvider", "OpenRouterProvider", "GroqProvider", "OllamaProvider"}

config(p) ==
    CASE p = "GeminiProvider" ->
            [name |-> "gemini-2.0-flash", max_context_tokens |-> 32000]
      [] p = "OpenRouterProvider" ->
            [name |-> "openrouter-llama-3.3-70b", max_context_tokens |-> 100000]
      [] p = "GroqProvider" ->
            [name |-> "groq-llama-3.3-70b", max_context_tokens |-> 100000]
      [] p = "OllamaProvider" ->
            [name |-> "ollama-llama-3.1-8b", max_context_tokens |-> 100000]

\* the import order of _get_chain
BaseOrder ==
    <<"GeminiProvider", "OpenRouterProvider", "GroqProvider", "OllamaProvider">>

\* providers.sort(key=lambda p: 0 if kind(p) == preferred else 1): stable
SortPreferred(ps, preferred) ==
    SelectSeq(ps, LAMBDA p : p = preferred) \o
    SelectSeq(ps, LAMBDA p : p # preferred)

\* the provider lists the callers build: _get_chain (any provider may fail
\* to import, llm_provider may name a preferred kind) and repro_fallback
ClassLists ==
    LET subs == { SelectSeq(BaseOrder, LAMBDA p : p \in S) :
                      S \in SUBSET ProviderClasses }
        sorted == { SortPreferred(ps, pr) : ps \in subs, pr \in ProviderClasses }
        repro == { <<"GeminiProvider", "GroqProvider", "OpenRouterProvider">> }
    IN { ps \in subs \cup sorted \cup repro : Len(ps) <= MaxProviders }

\* a provider instance: its class and what is_available() reports
ProviderLists ==
    UNION { { [i \in 1..Len(ps) |->
                 [cls |-> ps[i], is_available |-> (ps[i] \in A)]] :
              A \in SUBSET Range(ps) } : ps \in ClassLists }

\* ------------------------------------------------------------------------
\* State
\* ------------------------------------------------------------------------
VARIABLES
    chain_state,      \* "none" | "constructed" | "config_error"
    providers,        \* the list handed to LLMProviderChain(...)
    available,        \* self._available
    preferred_index,  \* self._preferred_index
    gpc,              \* position of the generate call
    offset,           \* loop variable of the outer for
    idx,              \* local idx of generate
    attempt,          \* loop variable of the inner for
    errors,           \* local errors list
    result,           \* how the last generate call ended
    attempt_log,      \* observation: one entry per provider.generate call
    sleeps,           \* observation: every asyncio.sleep(delay) of the call
    last_success,     \* observation: index of the adapter that last succeeded
    entry_preferred,  \* observation: preferred_index when the call began
    files,            \* the documents handed to create_batches
    batches,          \* local batches of create_batches (its return value)
    current_batch,    \* local current_batch
    current_chars,    \* local current_chars
    file_i,           \* position of the for loop in files (1-based)
    bpc,              \* "idle" | "loop" | "returned" | "raised"
    plan_call,        \* the call being made: who calls, with which keywords
    plan_error,       \* the exception the call raised, if any
    job_status,       \* job.status of the analysis job
    xbatches,         \* local batches of run_analysis, as the batch loop sees it
    xi,               \* number of batches the loop has finished
    xpc,              \* position of the batch loop of run_analysis
    xstack,           \* the active discover_batch calls, outermost first
    xret,             \* how the discover_batch call that just ended ended
    batch_results,    \* local batch_results of run_analysis
    xlast,            \* observation: the last generation call and its outcome
    xleaves,          \* observation: discover_batch calls of this batch that did not split
    mk_metrics,       \* argument metrics of generate_mock_data
    mk_workspace,     \* argument workspace_name of generate_mock_data
    clock,            \* the UTC wall clock, in hours
    rng_pattern,      \* for each seed in use, the stream random.Random(seed) yields
    mk_outs,          \* observation: what each call of fallback_mock_data returned
    gen_call,         \* observation: the generation function called and the case it met
    gen_result,       \* what that call returned
    px_obj,           \* the object whose rendering is handed to the extractor
    px_text,          \* argument raw of _parse_json_with_trace
    px_result,        \* what _parse_json_with_trace returned or raised
    px_tried,         \* observation: the recovery strategies that parsed a candidate, in order
    jpc,              \* position of run_analysis
    jcall,            \* the monitored generation call in flight, or the last one made
    jexc,             \* whether an exception is on its way to a handler of run_analysis
    job_logs,         \* job.logs as the session of run_analysis holds it
    db_row,           \* the stored row of the job: its status and its log
    hbs,              \* the heartbeat tasks created so far, in order
    status_log,       \* observation: the statuses written to the stored row, in order
    committed,        \* observation: the log entries that a commit has stored
    rcalls,           \* the generate calls in flight on the shared chain, by caller
    rhealth,          \* what each adapter of the chain answers in this run
    xtrail            \* what run_analysis has awaited in the batch loop, in order

chainVars == <<chain_state, providers, available, preferred_index>>

callVars == <<gpc, offset, idx, attempt, errors, result, attempt_log, sleeps,
              last_success, entry_preferred>>

batchVars == <<files, batches, current_batch, current_chars, file_i, bpc,
               plan_call, plan_error, job_status>>

execVars == <<xbatches, xi, xpc, xstack, xret, batch_results, xlast, xleaves>>

mockVars == <<mk_metrics, mk_workspace, clock, rng_pattern, mk_outs>>

genVars == <<gen_call, gen_result>>

parseVars == <<px_obj, px_text, px_result, px_tried>>

jobVars == <<jpc, jcall, jexc, job_logs, db_row, hbs, status_log, committed>>

raceVars == <<rcalls, rhealth>>

loopVars == <<xtrail>>

laterVars == <<mockVars, genVars, parseVars, jobVars, raceVars, loopVars>>

pipelineVars == <<execVars, laterVars>>

vars == <<chainVars, callVars, batchVars, pipelineVars>>

NoResult == [kind |-> "none"]

NoGeneration == [call |-> "none"]

\* The batch loop and the executor at rest.
ExecIdle ==
    /\ xbatches = <<>>
    /\ xi = 0
    /\ xpc = "idle"
    /\ xstack = <<>>
    /\ xret = NoResult
    /\ batch_results = <<>>
    /\ xlast = NoGeneration
    /\ xleaves = 0

\* No call of fallback_mock_data has been made.
MockIdle ==
    /\ mk_metrics = <<>>
    /\ mk_workspace = "none"
    /\ clock = 0
    /\ rng_pattern = <<>>
    /\ mk_outs = <<>>

\* No generation function has been called.
GenIdle ==
    /\ gen_call = NoGeneration
    /\ gen_result = NoResult

\* The extractor has not been called.
ParseIdle ==
    /\ px_obj = NoResult
    /\ px_text = <<>>
    /\ px_result = NoResult
    /\ px_tried = <<>>

\* run_analysis has not been started.
JobIdle ==
    /\ jpc = "idle"
    /\ jcall = "none"
    /\ jexc = FALSE
    /\ job_logs = <<>>
    /\ db_row = NoResult
    /\ hbs = <<>>
    /\ status_log = <<>>
    /\ committed = {}

\* no concurrent callers
RaceIdle ==
    /\ rcalls = <<>>
    /\ rhealth = <<>>

\* the batch loop has awaited nothing
LoopIdle ==
    xtrail = <<>>

NoCall == [caller |-> "none", kwargs |-> {}]

\* ------------------------------------------------------------------------
\* LLMProviderChain.__init__
\* ------------------------------------------------------------------------
\* is_available() is not consulted
AvailableOf_All(ps) == [i \in 1..Len(ps) |-> ps[i].cls]

AvailableOf(ps) ==
    LET avail == SelectSeq(ps, LAMBDA p : p.is_available)
    IN [i \in 1..Len(avail) |-> avail[i].cls]

Construct(ps) ==
    /\ chain_state \in {"none", "config_error"}
    /\ providers' = ps
    /\ available' = AvailableOf(ps)
    /\ preferred_index' = 0
    /\ chain_state' = IF AvailableOf(ps) = <<>> THEN "config_error"
                                                ELSE "constructed"
    /\ UNCHANGED <<callVars, batchVars, pipelineVars>>

\* ------------------------------------------------------------------------
\* LLMProviderChain.generate
\* ------------------------------------------------------------------------
n == Len(available)

\* every error is taken for a rate limit
is_retriable_Always(e) == TRUE

is_retriable(e) == \E kw \in RetriableMarkers : Contains(Lower(e.msg), kw)

\* error_msg = str(e) or type(e).__name__ ; f"{cfg.name}: {error_msg}"
ErrorSummary(p, e) ==
    [name |-> config(p).name,
     error_msg |-> IF e.msg # <<>> THEN e.msg ELSE e.type]

\* no exponential growth
Delay_Constant(a) == RATE_LIMIT_RETRY_DELAY

\* delay = min(RATE_LIMIT_RETRY_DELAY * (2 ** attempt), 60)
Delay(a) == Min2(RATE_LIMIT_RETRY_DELAY * Pow2(a), BACKOFF_CAP)

\* every call starts at the head of the chain
ProviderIndex_NoSticky(pref, off) == off % n

\* idx = (self._preferred_index + offset) % n
ProviderIndex(pref, off) == (pref + off) % n

\* if is_retriable and attempt < MAX_RETRIES_PER_PROVIDER - 1
ShouldRetry(e, a) == is_retriable(e) /\ a < MAX_RETRIES_PER_PROVIDER - 1

\* the preference is moved before the adapter has answered
PreferredAfter_Eager(out, i, pref) == i

\* self._preferred_index = idx stands after the await, inside the try: it is
\* reached only when provider.generate returned
PreferredAfter(out, i, pref) == IF out.kind = "ok" THEN i ELSE pref

\* only the last error is reported
ExhaustedError_LastOnly(errs) ==
    [kind |-> "raise", type |-> "RuntimeError",
     prefix |-> <<"All LLM providers failed. Errors: ">>,
     errors |-> IF errs = <<>> THEN <<>> ELSE <<errs[Len(errs)]>>]

ExhaustedError(errs) ==
    [kind |-> "raise", type |-> "RuntimeError",
     prefix |-> IF n = 1 THEN <<config(available[1]).name, " failed. Errors: ">>
                         ELSE <<"All LLM providers failed. Errors: ">>,
     errors |-> errs]

\* the call begins: errors = [], n = len(self._available)
BeginGenerate ==
    /\ chain_state = "constructed"
    /\ gpc \in {"idle", "returned", "raised"}
    /\ gpc' = "next_provider"
    /\ offset' = 0
    /\ idx' = 0
    /\ attempt' = 0
    /\ errors' = <<>>
    /\ result' = NoResult
    /\ attempt_log' = <<>>
    /\ sleeps' = <<>>
    /\ entry_preferred' = preferred_index
    /\ UNCHANGED <<chainVars, last_success, batchVars, pipelineVars>>

\* head of the outer loop: idx = (self._preferred_index + offset) % n,
\* or the raise after the loop when range(n) is used up
NextProvider ==
    /\ gpc = "next_provider"
    /\ IF offset < n
       THEN /\ idx' = ProviderIndex(preferred_index, offset)
            /\ attempt' = 0
            /\ gpc' = "invoke"
            /\ UNCHANGED result
       ELSE /\ result' = ExhaustedError(errors)
            /\ gpc' = "raised"
            /\ UNCHANGED <<idx, attempt>>
    /\ UNCHANGED <<chainVars, offset, errors, attempt_log, sleeps,
                   last_success, entry_preferred, batchVars, pipelineVars>>

\* result = await provider.generate(...) and everything up to the next await
Attempt(out) ==
    /\ gpc = "invoke"
    /\ attempt_log' = Append(attempt_log,
                             [idx |-> idx, cls |-> available[idx + 1],
                              attempt |-> attempt, outcome |-> out])
    /\ preferred_index' = PreferredAfter(out, idx, preferred_index)
    /\ IF out.kind = "ok"
       THEN /\ last_success' = idx
            /\ result' = [kind |-> "return", text |-> out.text]
            /\ gpc' = "returned"
            /\ UNCHANGED <<errors, sleeps, offset, attempt>>
       ELSE /\ errors' = Append(errors, ErrorSummary(available[idx + 1], out.exc))
            /\ UNCHANGED <<last_success, result>>
            /\ IF ShouldRetry(out.exc, attempt)
               THEN /\ sleeps' = Append(sleeps, [idx |-> idx, attempt |-> attempt,
                                                 delay |-> Delay(attempt)])
                    /\ gpc' = "sleeping"
                    /\ UNCHANGED <<offset, attempt>>
               ELSE \* break: exhausted or terminal, on to the next offset
                    /\ offset' = offset + 1
                    /\ gpc' = "next_provider"
                    /\ UNCHANGED <<sleeps, attempt>>
    /\ UNCHANGED <<chain_state, providers, available, idx, entry_preferred,
                   batchVars, pipelineVars>>

\* the adapter at idx answers in one of the ways it can
Invoke ==
    /\ gpc = "invoke"
    /\ \E out \in Outcomes(available[idx + 1]) : Attempt(out)

\* asyncio.sleep(delay) is over: next iteration of the inner loop
Wake ==
    /\ gpc = "sleeping"
    /\ attempt' = attempt + 1
    /\ gpc' = "invoke"
    /\ UNCHANGED <<chainVars, offset, idx, errors, result, attempt_log, sleeps,
                   last_success, entry_preferred, batchVars, pipelineVars>>

\* ------------------------------------------------------------------------
\* Specification of the chain
\* ------------------------------------------------------------------------
Init ==
    /\ chain_state = "none"
    /\ providers = <<>>
    /\ available = <<>>
    /\ preferred_index = 0
    /\ gpc = "idle"
    /\ offset = 0
    /\ idx = 0
    /\ attempt = 0
    /\ errors = <<>>
    /\ result = NoResult
    /\ attempt_log = <<>>
    /\ sleeps = <<>>
    /\ last_success = -1
    /\ entry_preferred = 0
    /\ files = <<>>
    /\ batches = <<>>
    /\ current_batch = <<>>
    /\ current_chars = 0
    /\ file_i = 1
    /\ bpc = "idle"
    /\ plan_call = NoCall
    /\ plan_error = NoResult
    /\ job_status = "analyzing"
    /\ ExecIdle
    /\ MockIdle
    /\ GenIdle
    /\ LoopIdle
    /\ RaceIdle
    /\ JobIdle
    /\ ParseIdle

Next ==
    \/ \E ps \in ProviderLists : Construct(ps)
    \/ BeginGenerate
    \/ NextProvider
    \/ Invoke
    \/ Wake

Spec == Init /\ [][Next]_vars

\* ------------------------------------------------------------------------
\* Batch planner: utils/token_estimator.py and its call in run_analysis
\* ------------------------------------------------------------------------
\* a document {"path": str, "content": str}; the content is kept by its
\* length, which is all create_batches reads of it
Doc(path, content_len) == [path |-> path, content_len |-> content_len]

DocPool ==
    { Doc("a.py", 699976),        \* cost   700,000: a quarter of the budget
      Doc("src/b.py", 1399972),   \* cost 1,400,000: half of the budget
      Doc("c.md", 2099976),       \* cost 2,100,000: three quarters
      Doc("c1.md", 2099976),      \* cost 2,100,001
      Doc("big.js", 2799975) }    \* cost 2,800,001: more than the budget

ScenarioPaths ==
    <<"d01.py", "d02.py", "d03.py", "d04.py", "d05.py", "d06.py",
      "d07.py", "d08.py", "d09.py", "d10.py", "d11.py", "d12.py">>

\* k documents of cost 700,000 each
EqualDocs(k) == [i \in 1..k |-> Doc(ScenarioPaths[i], 699974)]

FileLists ==
    UNION { [1..k -> DocPool] : k \in 0..MaxFiles } \cup
    { EqualDocs(k) : k \in 1..MaxEqualDocs }

\* def create_batches(files: list[dict])
CreateBatchesParams == {"files"}

\* Python's argument binding: a keyword that names no parameter is a TypeError
BindsOk(params, kwargs) == kwargs \subseteq params

\* get_max_context_tokens: min over the available providers
get_max_context_tokens ==
    SetMin({config(available[i]).max_context_tokens : i \in 1..Len(available)})

\* int(llm_service.get_batch_token_limit() * 0.25)
PlannedMaxTokens == (get_max_context_tokens * BATCH_LIMIT_PERCENT) \div 100

\* file_chars = len(file["content"]) + len(file["path"]) + 20
FileChars(f) == f.content_len + Len(f.path) + FILE_OVERHEAD

\* a batch is closed one character too early
ShouldClose_Early(cc, fc, cb) == cc + fc >= MAX_CHARS_PER_BATCH /\ cb # <<>>

\* if current_chars + file_chars > MAX_CHARS_PER_BATCH and current_batch
ShouldClose(cc, fc, cb) == cc + fc > MAX_CHARS_PER_BATCH /\ cb # <<>>

\* the batch still open at the end of the loop is forgotten
FinalBatches_NoFlush(bs, cb) == bs

\* if current_batch: batches.append(current_batch)
FinalBatches(bs, cb) == IF cb # <<>> THEN Append(bs, cb) ELSE bs

\* entry of create_batches once its arguments are bound
EnterCreateBatches ==
    /\ batches' = <<>>
    /\ current_batch' = <<>>
    /\ current_chars' = 0
    /\ file_i' = 1
    /\ bpc' = "loop"

\* a call of create_batches with the given keyword arguments next to files
CallCreateBatches(caller, kwargs) ==
    /\ plan_call' = [caller |-> caller, kwargs |-> kwargs]
    /\ IF BindsOk(CreateBatchesParams, {"files"} \cup kwargs)
       THEN /\ EnterCreateBatches
            /\ UNCHANGED <<plan_error, job_status>>
       ELSE /\ plan_error' = [kind |-> "raise", type |-> "TypeError"]
            /\ bpc' = "raised"
            \* the except Exception of run_analysis: job.status = "failed"
            /\ job_status' = IF caller = "run_analysis" THEN "failed"
                                                        ELSE job_status
            /\ UNCHANGED <<batches, current_batch, current_chars, file_i>>
    /\ UNCHANGED <<chainVars, callVars, pipelineVars, files>>

\* create_batches(files)
DirectCall ==
    /\ bpc = "idle"
    /\ CallCreateBatches("direct", {})

\* run_analysis: create_batches(files, max_tokens=int(limit * 0.25));
\* run_analysis gets here only with a non-empty files list
RunAnalysisPlan ==
    /\ bpc = "idle"
    /\ files # <<>>
    /\ job_status = "analyzing"
    /\ CallCreateBatches("run_analysis", {"max_tokens"})

\* one iteration of `for file in files`
BatchStep ==
    /\ bpc = "loop"
    /\ file_i <= Len(files)
    /\ LET file == files[file_i]
           file_chars == FileChars(file)
       IN IF ShouldClose(current_chars, file_chars, current_batch)
          THEN /\ batches' = Append(batches, current_batch)
               /\ current_batch' = <<file>>
               /\ current_chars' = file_chars
          ELSE /\ batches' = batches
               /\ current_batch' = Append(current_batch, file)
               /\ current_chars' = current_chars + file_chars
    /\ file_i' = file_i + 1
    /\ UNCHANGED <<chainVars, callVars, pipelineVars, files, bpc, plan_call, plan_error,
                   job_status>>

\* the loop is over: flush the open batch and return
BatchReturn ==
    /\ bpc = "loop"
    /\ file_i > Len(files)
    /\ batches' = FinalBatches(batches, current_batch)
    /\ bpc' = "returned"
    /\ UNCHANGED <<chainVars, callVars, pipelineVars, files, current_batch, current_chars,
                   file_i, plan_call, plan_error, job_status>>

\* ------------------------------------------------------------------------
\* Specification of the planner: the chain exists, the files are fetched
\* ------------------------------------------------------------------------
InitBatch ==
    /\ providers \in { [i \in 1..Len(ps) |-> [cls |-> ps[i], is_available |-> TRUE]] :
                         ps \in ClassLists \ {<<>>} }
    /\ available = AvailableOf(providers)
    /\ chain_state = "constructed"
    /\ preferred_index = 0
    /\ gpc = "idle"
    /\ offset = 0
    /\ idx = 0
    /\ attempt = 0
    /\ errors = <<>>
    /\ result = NoResult
    /\ attempt_log = <<>>
    /\ sleeps = <<>>
    /\ last_success = -1
    /\ entry_preferred = 0
    /\ files \in FileLists
    /\ batches = <<>>
    /\ current_batch = <<>>
    /\ current_chars = 0
    /\ file_i = 1
    /\ bpc = "idle"
    /\ plan_call = NoCall
    /\ plan_error = NoResult
    /\ job_status = "analyzing"
    /\ ExecIdle
    /\ MockIdle
    /\ GenIdle
    /\ LoopIdle
    /\ RaceIdle
    /\ JobIdle
    /\ ParseIdle

NextBatch ==
    \/ DirectCall
    \/ RunAnalysisPlan
    \/ BatchStep
    \/ BatchReturn

SpecBatch == InitBatch /\ [][NextBatch]_vars

\* ------------------------------------------------------------------------
\* Observations on the attempts of the current generate call
\* ------------------------------------------------------------------------
LogIdx == 1..Len(attempt_log)

CallsTo(i) == Cardinality({k \in LogIdx : attempt_log[k].idx = i})

IsError(k) == attempt_log[k].outcome.kind = "error"

\* the error of entry k matches one of the markers of provider_chain.py:62,
\* spelled out per message so that it does not lean on is_retriable
IsRetriableEntry(k) ==
    /\ IsError(k)
    /\ attempt_log[k].outcome.exc.msg \in {Msg429, MsgEmptyResponse}

IsTerminalEntry(k) ==
    /\ IsError(k)
    /\ attempt_log[k].outcome.exc.msg \in {MsgUnauthorized, <<>>}

SleptAfter(k) ==
    \E j \in 1..Len(sleeps) : /\ sleeps[j].idx = attempt_log[k].idx
                              /\ sleeps[j].attempt = attempt_log[k].attempt

RECURSIVE SleepTotal(_, _)
SleepTotal(i, j) ==
    IF j = 0 THEN 0
    ELSE SleepTotal(i, j - 1) + (IF sleeps[j].idx = i THEN sleeps[j].delay ELSE 0)

CallOver == gpc \in {"returned", "raised"}

\* ------------------------------------------------------------------------
\* C1: a generate call on a constructed chain ends either by returning the
\* text of the adapter call that succeeded, or by raising the RuntimeError
\* that carries the summaries of all failed attempts, in order; nothing
\* else comes out of it.
\* ------------------------------------------------------------------------
C1_ReturnsTextOrExhausted ==
    CallOver =>
        \/ /\ result.kind = "return"
           /\ gpc = "returned"
           /\ attempt_log # <<>>
           /\ attempt_log[Len(attempt_log)].outcome.kind = "ok"
           /\ result.text = attempt_log[Len(attempt_log)].outcome.text
        \/ /\ result.kind = "raise"
           /\ gpc = "raised"
           /\ result.type = "RuntimeError"
           /\ \A k \in LogIdx : IsError(k)
           /\ Len(result.errors) = Len(attempt_log)
           /\ \A k \in LogIdx :
                 /\ result.errors[k].name = config(attempt_log[k].cls).name
                 /\ result.errors[k].error_msg \in
                        {attempt_log[k].outcome.exc.msg,
                         attempt_log[k].outcome.exc.type}
           /\ \A i \in 0..(n - 1) : CallsTo(i) >= 1

C1_Witness ==
    /\ gpc = "raised"
    /\ n = 2
    /\ Len(result.errors) = 4
    /\ \E k \in LogIdx : IsTerminalEntry(k)

\* ------------------------------------------------------------------------
\* C2: sticky routing. When an adapter at index i has succeeded, the first
\* attempt of the next call goes to adapter i, and the call moves on to
\* (i+1) mod n, (i+2) mod n, ... only after a failed attempt.
\* ------------------------------------------------------------------------
C2_StickyFirstAttempt ==
    [][ /\ (attempt_log = <<>> /\ attempt_log' # <<>> /\ last_success # -1)
            => attempt_log'[1].idx = last_success
        /\ \A k \in 2..Len(attempt_log') :
              /\ attempt_log'[k - 1].outcome.kind = "error"
              /\ attempt_log'[k].idx \in
                    {attempt_log'[k - 1].idx,
                     (attempt_log'[k - 1].idx + 1) % Len(available')}
      ]_vars

C2_Witness ==
    /\ gpc = "sleeping"
    /\ last_success = 1
    /\ Len(attempt_log) = 1
    /\ attempt_log[1].idx = 1

\* ------------------------------------------------------------------------
\* C3: on a constructed chain 0 <= preferred_index < n; preferred_index is
\* 0 while no call has succeeded and otherwise the index of the adapter
\* that succeeded last; a call that ends in exhaustion leaves it as it was
\* when the call began.
\* ------------------------------------------------------------------------
C3_PreferredIndexValid ==
    chain_state = "constructed" =>
        /\ 0 <= preferred_index
        /\ preferred_index < n
        /\ (last_success = -1 => preferred_index = 0)
        /\ (last_success # -1 => preferred_index = last_success)
        /\ (gpc = "raised" => preferred_index = entry_preferred)

C3_Witness ==
    /\ gpc = "raised"
    /\ n = 3
    /\ last_success = 2
    /\ preferred_index = 2

\* ------------------------------------------------------------------------
\* C4: within one call no adapter is invoked more than 3 times, and the
\* attempts on one adapter form one contiguous run.
\* ------------------------------------------------------------------------
C4_AtMostThreeAttempts ==
    /\ \A i \in 0..(n - 1) : CallsTo(i) <= 3
    /\ \A j, k, l \in LogIdx :
          (j < k /\ k < l /\ attempt_log[j].idx = attempt_log[l].idx)
              => attempt_log[k].idx = attempt_log[j].idx

C4_Witness ==
    /\ gpc = "raised"
    /\ n = 3
    /\ \A i \in 0..2 : CallsTo(i) = 3

\* ------------------------------------------------------------------------
\* C5 as stated: an adapter that had an attempt fail with a non-retriable
\* error was attempted exactly once in the call.
\* ------------------------------------------------------------------------
C5_TerminalAttemptedOnce ==
    \A k \in LogIdx :
        IsTerminalEntry(k) => CallsTo(attempt_log[k].idx) = 1

\* ------------------------------------------------------------------------
\* C5 amended: a non-retriable error ends the adapter's run in that call:
\* no sleep follows it, the adapter is not attempted again, the next attempt
\* (if any) is on the next adapter in chain order, and when the error comes
\* on the adapter's first attempt the adapter is attempted exactly once.
\* With 3 adapters, adapter 0 always rate-limited, adapter 1 failing with an
\* auth error and adapter 2 returning "ok", the call returns "ok",
\* preferred_index becomes 2, adapter 0 was attempted 3 times and adapter 1
\* once.
\* ------------------------------------------------------------------------
ScenarioRun ==
    /\ n = 3
    /\ gpc = "returned"
    /\ entry_preferred = 0
    /\ \A k \in LogIdx :
          /\ attempt_log[k].idx = 0 => /\ IsError(k)
                                       /\ attempt_log[k].outcome.exc = RateLimitError
          /\ attempt_log[k].idx = 1 => /\ IsError(k)
                                       /\ attempt_log[k].outcome.exc = AuthError
          /\ attempt_log[k].idx = 2 => attempt_log[k].outcome =
                                           [kind |-> "ok", text |-> "ok"]

C5_TerminalEndsRun ==
    /\ \A k \in LogIdx :
          IsTerminalEntry(k) =>
              /\ ~SleptAfter(k)
              /\ \A l \in LogIdx : l > k => attempt_log[l].idx # attempt_log[k].idx
              /\ (k < Len(attempt_log)) =>
                     attempt_log[k + 1].idx = (attempt_log[k].idx + 1) % n
              /\ attempt_log[k].attempt = 0 => CallsTo(attempt_log[k].idx) = 1
    /\ ScenarioRun =>
          /\ result = [kind |-> "return", text |-> "ok"]
          /\ preferred_index = 2
          /\ CallsTo(0) = 3
          /\ CallsTo(1) = 1
          /\ CallsTo(2) = 1

C5_Witness == ScenarioRun /\ Len(attempt_log) = 5

\* ------------------------------------------------------------------------
\* C6: a retriable error at attempt a (0-based), a < 2, is followed by a
\* sleep of min(5 * 2^a, 60) seconds (5, then 10) and a retry of the same
\* adapter; no sleep follows a third attempt or a terminal error; an
\* adapter that used all three attempts cost 5 + 10 = 15 seconds; no sleep
\* exceeds 60 seconds.
\* ------------------------------------------------------------------------
C6_BackoffSchedule ==
    /\ \A j \in 1..Len(sleeps) :
          /\ sleeps[j].delay <= 60
          /\ sleeps[j].attempt \in {0, 1}
          /\ sleeps[j].attempt = 0 => sleeps[j].delay = 5
          /\ sleeps[j].attempt = 1 => sleeps[j].delay = 10
          /\ \E k \in LogIdx : /\ attempt_log[k].idx = sleeps[j].idx
                               /\ attempt_log[k].attempt = sleeps[j].attempt
                               /\ IsRetriableEntry(k)
    /\ \A k \in LogIdx :
          /\ (IsRetriableEntry(k) /\ attempt_log[k].attempt < 2) => SleptAfter(k)
          /\ (SleptAfter(k) /\ k < Len(attempt_log)) =>
                 /\ attempt_log[k + 1].idx = attempt_log[k].idx
                 /\ attempt_log[k + 1].attempt = attempt_log[k].attempt + 1
          /\ (SleptAfter(k) /\ k = Len(attempt_log)) => gpc \in {"sleeping", "invoke"}
    /\ \A i \in 0..(n - 1) :
          CallsTo(i) = 3 => SleepTotal(i, Len(sleeps)) = 15

C6_Witness ==
    /\ gpc = "raised"
    /\ n = 1
    /\ CallsTo(0) = 3
    /\ Len(sleeps) = 2
    /\ SleepTotal(0, 2) = 15

\* ------------------------------------------------------------------------
\* C7: constructing a chain from providers none of which is available
\* fails and gives no chain (no generate call ever runs on it); otherwise
\* the chain holds exactly the available providers in their given order,
\* and generate only ever calls adapters of that list.
\* ------------------------------------------------------------------------
PosIn(ps, c) == CHOOSE i \in 1..Len(ps) : ps[i].cls = c

C7_ChainIsAvailableProviders ==
    /\ chain_state = "config_error" =>
          /\ \A i \in 1..Len(providers) : ~providers[i].is_available
          /\ gpc = "idle"
          /\ attempt_log = <<>>
    /\ chain_state = "constructed" =>
          /\ \E i \in 1..Len(providers) : providers[i].is_available
          /\ Range(available) =
                {providers[i].cls : i \in {j \in 1..Len(providers) :
                                              providers[j].is_available}}
          /\ \A i, j \in 1..Len(available) :
                i < j => PosIn(providers, available[i]) < PosIn(providers, available[j])
          /\ \A k \in LogIdx :
                /\ attempt_log[k].idx \in 0..(n - 1)
                /\ attempt_log[k].cls = available[attempt_log[k].idx + 1]
                /\ \E i \in 1..Len(providers) :
                      /\ providers[i].cls = attempt_log[k].cls
                      /\ providers[i].is_available

C7_Witness ==
    /\ chain_state = "constructed"
    /\ Len(providers) = 3
    /\ ~providers[2].is_available
    /\ Len(available) = 2
    /\ gpc = "returned"
    /\ attempt_log[Len(attempt_log)].idx = 1

C7_WitnessNoChain ==
    /\ chain_state = "config_error"
    /\ Len(providers) = 2

\* ------------------------------------------------------------------------
\* Observations on the planner's result
\* ------------------------------------------------------------------------
RECURSIVE Flatten(_)
Flatten(bs) == IF bs = <<>> THEN <<>> ELSE Head(bs) \o Flatten(Tail(bs))

DocCost(f) == f.content_len + Len(f.path) + 20

RECURSIVE SumCost(_)
SumCost(b) == IF b = <<>> THEN 0 ELSE DocCost(Head(b)) + SumCost(Tail(b))

\* ------------------------------------------------------------------------
\* C8: the batches create_batches returns, concatenated in order, are the
\* input list: nothing lost, reordered, duplicated or split. While the loop
\* runs, the closed batches and the open one hold the documents read so far.
\* ------------------------------------------------------------------------
C8_BatchesConcatToInput ==
    /\ bpc = "returned" => Flatten(batches) = files
    /\ bpc = "loop" =>
          Flatten(batches) \o current_batch = SubSeq(files, 1, file_i - 1)

C8_Witness ==
    /\ bpc = "returned"
    /\ Len(files) = 4
    /\ Len(batches) = 2
    /\ Len(batches[1]) = 3

C8_WitnessEmpty == bpc = "returned" /\ files = <<>> /\ batches = <<>>

\* ------------------------------------------------------------------------
\* C9: a batch is closed exactly when the next document would take it over
\* 2,800,000 characters and it is not empty. So: no returned batch is
\* empty; a batch of two or more documents costs at most the budget; each
\* closed batch could not have taken the first document of the next one; a
\* document costing more than the budget is alone in its batch; and 10
\* equal documents that total 2.5 budgets come back as 3 batches (4, 4, 2).
\* ------------------------------------------------------------------------
C9_GreedyClose ==
    bpc = "returned" =>
        /\ \A k \in 1..Len(batches) :
              /\ batches[k] # <<>>
              /\ Len(batches[k]) >= 2 => SumCost(batches[k]) <= 2800000
              /\ \A j \in 1..Len(batches[k]) :
                    DocCost(batches[k][j]) > 2800000 => Len(batches[k]) = 1
              /\ k < Len(batches) =>
                    SumCost(batches[k]) + DocCost(batches[k + 1][1]) > 2800000
        /\ Cardinality({i \in 1..Len(files) : DocCost(files[i]) > 2800000}) =
           Cardinality({k \in 1..Len(batches) :
                           Len(batches[k]) = 1 /\ DocCost(batches[k][1]) > 2800000})
        /\ ( /\ Len(files) = 10
             /\ \A i \in 1..10 : DocCost(files[i]) = DocCost(files[1])
             /\ 2 * SumCost(files) = 5 * 2800000 )
           => /\ Len(batches) = 3
              /\ batches[1] = SubSeq(files, 1, 4)
              /\ batches[2] = SubSeq(files, 5, 8)
              /\ batches[3] = SubSeq(files, 9, 10)

C9_Witness ==
    /\ bpc = "returned"
    /\ Len(files) = 10
    /\ 2 * SumCost(files) = 5 * 2800000
    /\ Len(batches) = 3

C9_WitnessOversized ==
    /\ bpc = "returned"
    /\ Len(files) = 3
    /\ DocCost(files[2]) > 2800000
    /\ Len(batches) = 3

\* ------------------------------------------------------------------------
\* C10 as stated: the planning call of run_analysis, which passes
\* max_tokens = 0.25 * (minimum context window), returns batches, planned
\* against the character budget max_tokens * 3.5.
\* ------------------------------------------------------------------------
C10_PlanningCallReturnsBatches ==
    (plan_call.caller = "run_analysis") =>
        /\ bpc \in {"loop", "returned"}
        /\ plan_error = NoResult
        /\ job_status # "failed"
        /\ bpc = "returned" =>
              \A k \in 1..Len(batches) :
                  Len(batches[k]) >= 2 =>
                      10 * SumCost(batches[k]) <= PlannedMaxTokens * 35


\* ------------------------------------------------------------------------
\* JSON values as the generation functions hand them on.  The text of a
\* model is not validated, so a field may hold a list, an object, null, or
\* be absent.
\* ------------------------------------------------------------------------
JList(s) == [t |-> "list", items |-> s]

JObject == [t |-> "dict"]

JStr(s) == [t |-> "str", s |-> s]

JNull == [t |-> "null"]

JMissing == [t |-> "missing"]

\* d.get(key, default): the default only when the key is absent.
Get(v, default) == IF v.t = "missing" THEN default ELSE v

\* Python truth value of a JSON value (JObject stands for a non-empty object).
Truthy(v) ==
    CASE v.t = "list" -> v.items # <<>>
      [] v.t = "str" -> Len(v.s) > 0
      [] v.t = "dict" -> TRUE
      [] OTHER -> FALSE

\* x or y
Or(x, y) == IF Truthy(x) THEN x ELSE y

\* x + y is defined for two lists; for the other shapes here it raises TypeError.
CanAdd(x, y) == x.t = "list" /\ y.t = "list"

Add(x, y) == JList(x.items \o y.items)

Take(s, k) == SubSeq(s, 1, Min2(k, Len(s)))

Returned(metrics, trace) == [kind |-> "return", metrics |-> metrics, trace |-> trace]

Raised(type) == [kind |-> "raise", type |-> type]

\* A dict with none of the trace keys.
EmptyTrace ==
    [fallback |-> FALSE, batch_observations |-> JMissing,
     shortlist_criteria |-> JMissing, files_referenced |-> JMissing]

\* ------------------------------------------------------------------------
\* Metric discovery (llm_service): full-content and path-only
\* ------------------------------------------------------------------------
PathsOf(fs) == [i \in 1..Len(fs) |-> fs[i].path]

HeuristicMetric(name, data_type, evidence_paths) ==
    [name |-> name, data_type |-> data_type, evidence |-> Take(evidence_paths, 3)]

\* _heuristic_metric_fallback for paths that carry none of the signal
\* keywords and a summary without key entities: the three core metrics and
\* the two added while fewer than six are present.
heuristic_metric_fallback(file_paths) ==
    LET top_paths == Take(file_paths, 25) IN
    Returned(
        JList(<< HeuristicMetric("API Error Rate", "percentage", top_paths),
                 HeuristicMetric("API Latency (P95)", "number", top_paths),
                 HeuristicMetric("Request Volume", "number", top_paths),
                 HeuristicMetric("Background Job Failures", "number", top_paths),
                 HeuristicMetric("Feature Adoption (Top Feature)", "number", top_paths) >>),
        [fallback |-> TRUE,
         batch_observations |-> JList(<<"No strong framework/domain signals">>),
         shortlist_criteria |-> JList(<<"request logs / DB events", "3 performance indicators",
                                        "domain/auth/billing", "path evidence only">>),
         files_referenced |-> JList(Take(file_paths, 15))])

\* What one generation call meets: whether the statements before the try
\* raise, how chain.generate ends, whether the extractor parses the text,
\* whether the parsed value is an object, the value under the primary key
\* of the kind, and the trace that _parse_json_with_trace split off.
GenEnv(pre, chain, parse, result_is_dict, primary, trace) ==
    [pre |-> pre, chain |-> chain, parse |-> parse, result_is_dict |-> result_is_dict,
     primary |-> primary, trace |-> trace]

LlmMetrics(how, paths) ==
    JList(<< [name |-> how, data_type |-> "number", evidence |-> Take(paths, 1)] >>)

LlmTrace(paths) ==
    [fallback |-> FALSE, batch_observations |-> JList(<<"observation">>),
     shortlist_criteria |-> JList(<<"criterion">>),
     files_referenced |-> JList(Take(paths, 1))]

\* The cases in which no usable answer arrives.
FailureEnvs ==
    { GenEnv("raise", "n/a", "n/a", FALSE, JMissing, EmptyTrace),
      GenEnv("ok", "exhausted", "n/a", FALSE, JMissing, EmptyTrace),
      GenEnv("ok", "text", "unparsable", FALSE, JMissing, EmptyTrace),
      GenEnv("ok", "text", "ok", FALSE, JMissing, EmptyTrace),
      GenEnv("ok", "text", "ok", TRUE, JMissing, EmptyTrace),
      GenEnv("ok", "text", "ok", TRUE, JNull, EmptyTrace),
      GenEnv("ok", "text", "ok", TRUE, JList(<<>>), EmptyTrace) }

GenEnvs(how, paths) ==
    FailureEnvs \cup
    { GenEnv("ok", "text", "ok", TRUE, LlmMetrics(how, paths), LlmTrace(paths)),
      GenEnv("ok", "text", "ok", TRUE, LlmMetrics(how, paths), EmptyTrace),
      GenEnv("ok", "text", "ok", TRUE, LlmMetrics(how, paths),
             [LlmTrace(paths) EXCEPT !.batch_observations = JNull]),
      GenEnv("ok", "text", "ok", TRUE, JObject, EmptyTrace) }

\* result.get(key, []) or [] when the result is a dict, [] otherwise
PrimaryOf(env) ==
    IF env.result_is_dict THEN Or(Get(env.primary, JList(<<>>)), JList(<<>>))
    ELSE JList(<<>>)

\* Which of the cases of a generation call the environment chose.
EnvCause(env) ==
    CASE env.pre = "raise" -> "raised_before_try"
      [] env.chain = "exhausted" -> "exhausted"
      [] env.parse = "unparsable" -> "unparsable"
      [] ~Truthy(PrimaryOf(env)) -> "empty_payload"
      [] OTHER -> "payload"

\* an empty payload is handed on as it is
DiscoverBody_EmptyHandedOn(file_paths, env) ==
    IF env.pre = "raise" THEN Raised("Exception")
    ELSE IF env.chain = "exhausted" \/ env.parse = "unparsable"
         THEN heuristic_metric_fallback(file_paths)
    ELSE Returned(PrimaryOf(env), env.trace)

\* discover_metrics and discover_metrics_from_paths share this body; they
\* differ in the prompt and in the paths handed to the fallback.
DiscoverBody(file_paths, env) ==
    IF env.pre = "raise" THEN Raised("Exception")
    ELSE IF env.chain = "exhausted" \/ env.parse = "unparsable"
         THEN heuristic_metric_fallback(file_paths)
    ELSE IF Truthy(PrimaryOf(env)) THEN Returned(PrimaryOf(env), env.trace)
    ELSE heuristic_metric_fallback(file_paths)

discover_metrics(fs, env) == DiscoverBody(PathsOf(fs), env)

discover_metrics_from_paths(file_paths, env) == DiscoverBody(file_paths, env)


\* ------------------------------------------------------------------------
\* The batch loop of run_analysis and discover_batch
\* ------------------------------------------------------------------------
MaxBatchDocs == 5

SmallDocs(k) == [i \in 1..k |-> Doc(ScenarioPaths[i], 6000)]

\* What create_batches returns: one batch for documents that fit together,
\* and two batches once a document no longer fits.
ExecBatchLists ==
    { << SmallDocs(k) >> : k \in 1..MaxBatchDocs } \cup
    { << <<Doc("c.md", 2099976)>>, <<Doc("c1.md", 2099976)>> >>,
      << <<Doc("a.py", 699976), Doc("c.md", 2099976)>>, <<Doc("c1.md", 2099976)>> >> }

SPLIT_DEPTH_LIMIT_OneMore == 2 + 1

SPLIT_DEPTH_LIMIT == 2

\* a batch of one document is split as well
CanSplit_AnySize(batch_files, depth) == depth < SPLIT_DEPTH_LIMIT

\* if len(batch_files) >= 2 and depth < 2
CanSplit(batch_files, depth) == Len(batch_files) >= 2 /\ depth < SPLIT_DEPTH_LIMIT

\* mid = max(1, len(batch_files) // 2)
Mid(batch_files) == IF Len(batch_files) \div 2 >= 1 THEN Len(batch_files) \div 2 ELSE 1

LeftHalf(batch_files) == SubSeq(batch_files, 1, Min2(Mid(batch_files), Len(batch_files)))

RightHalf(batch_files) == SubSeq(batch_files, Mid(batch_files) + 1, Len(batch_files))

Frame(batch_files, depth) ==
    [files |-> batch_files, depth |-> depth, pc |-> "full", left |-> NoResult]

\* The three expressions of combined_trace and left_metrics + right_metrics
\* are evaluated unguarded inside the except block.
CombineOk(l, r) ==
    /\ CanAdd(Get(l.trace.batch_observations, JList(<<>>)),
              Get(r.trace.batch_observations, JList(<<>>)))
    /\ CanAdd(Get(l.trace.files_referenced, JList(<<>>)),
              Get(r.trace.files_referenced, JList(<<>>)))
    /\ CanAdd(l.metrics, r.metrics)

Combine(l, r) ==
    IF CombineOk(l, r)
    THEN Returned(
            Add(l.metrics, r.metrics),
            [fallback |-> FALSE,
             batch_observations |-> Add(Get(l.trace.batch_observations, JList(<<>>)),
                                        Get(r.trace.batch_observations, JList(<<>>))),
             shortlist_criteria |-> Or(Get(l.trace.shortlist_criteria, JList(<<>>)),
                                       Get(r.trace.shortlist_criteria, JList(<<>>))),
             files_referenced |-> Add(Get(l.trace.files_referenced, JList(<<>>)),
                                      Get(r.trace.files_referenced, JList(<<>>)))])
    ELSE Raised("TypeError")

\* return [], {"batch_observations": [], "shortlist_criteria": [], "files_referenced": []}
EmptyBatchResult ==
    Returned(JList(<<>>),
             [fallback |-> FALSE, batch_observations |-> JList(<<>>),
              shortlist_criteria |-> JList(<<>>), files_referenced |-> JList(<<>>)])

Top == xstack[Len(xstack)]

Pop == SubSeq(xstack, 1, Len(xstack) - 1)

Generation(call, frame, env) ==
    [call |-> call, n |-> Len(frame.files), depth |-> frame.depth, cause |-> EnvCause(env)]

\* one await of the loop body, or the end of the awaited discover_batch
Awaited(op, batch_no) == [op |-> op, batch |-> batch_no]

\* for i, batch in enumerate(batches): ... await discover_batch(batch, i + 1)
XEnter ==
    /\ xpc = "loop"
    /\ xi < Len(xbatches)
    /\ xpc' = "in_batch"
    /\ xstack' = << Frame(xbatches[xi + 1], 0) >>
    /\ xret' = NoResult
    /\ xleaves' = 0
    /\ xlast' = NoGeneration
    /\ xtrail' = Append(xtrail, Awaited("discover_batch", xi + 1))
    /\ UNCHANGED <<chainVars, callVars, batchVars, mockVars, genVars, parseVars, jobVars,
                   raceVars, xbatches, xi, batch_results>>

\* The full-content call of the innermost discover_batch.  A returned pair
\* is returned as it is; an exception leads to the split or to the
\* path-only call.
XFull ==
    /\ xpc = "in_batch"
    /\ xret = NoResult
    /\ xstack # <<>>
    /\ Top.pc = "full"
    /\ \E env \in GenEnvs("from content", PathsOf(Top.files)) :
        LET r == discover_metrics(Top.files, env) IN
        /\ xlast' = Generation("full", Top, env)
        /\ IF r.kind = "return"
           THEN /\ xstack' = Pop
                /\ xret' = r
                /\ xleaves' = xleaves + 1
           ELSE IF CanSplit(Top.files, Top.depth)
           THEN /\ xstack' = Append([xstack EXCEPT ![Len(xstack)].pc = "wait_left"],
                                    Frame(LeftHalf(Top.files), Top.depth + 1))
                /\ UNCHANGED <<xret, xleaves>>
           ELSE /\ xstack' = [xstack EXCEPT ![Len(xstack)].pc = "paths"]
                /\ xleaves' = xleaves + 1
                /\ UNCHANGED xret
    /\ UNCHANGED <<chainVars, callVars, batchVars, laterVars, xbatches, xi, xpc, batch_results>>

\* The path-only call; its exception ends in the empty result.
XPaths ==
    /\ xpc = "in_batch"
    /\ xret = NoResult
    /\ xstack # <<>>
    /\ Top.pc = "paths"
    /\ \E env \in GenEnvs("from paths", PathsOf(Top.files)) :
        LET r == discover_metrics_from_paths(PathsOf(Top.files), env) IN
        /\ xlast' = Generation("paths", Top, env)
        /\ xret' = IF r.kind = "return" THEN r ELSE EmptyBatchResult
    /\ xstack' = Pop
    /\ UNCHANGED <<chainVars, callVars, batchVars, laterVars, xbatches, xi, xpc, batch_results, xleaves>>

\* A recursive call has ended: the caller goes on inside its except block.
XResume ==
    /\ xpc = "in_batch"
    /\ xret # NoResult
    /\ xstack # <<>>
    /\ IF xret.kind = "raise"
       THEN /\ xstack' = Pop
            /\ UNCHANGED xret
       ELSE IF Top.pc = "wait_left"
       THEN /\ xstack' = Append([xstack EXCEPT ![Len(xstack)].pc = "wait_right",
                                               ![Len(xstack)].left = xret],
                                Frame(RightHalf(Top.files), Top.depth + 1))
            /\ xret' = NoResult
       ELSE /\ xstack' = Pop
            /\ xret' = Combine(Top.left, xret)
    /\ UNCHANGED <<chainVars, callVars, batchVars, laterVars, xbatches, xi, xpc, batch_results,
                   xlast, xleaves>>

\* Back in the loop body: the pair is appended, or except Exception as
\* batch_err marks the job failed and returns; await session.commit() ends
\* both branches.
XBatchDone ==
    /\ xpc = "in_batch"
    /\ xret # NoResult
    /\ xstack = <<>>
    /\ IF xret.kind = "return"
       THEN /\ batch_results' = Append(batch_results, xret.metrics)
            /\ xi' = xi + 1
            /\ xpc' = "loop"
            /\ UNCHANGED job_status
       ELSE /\ job_status' = "failed"
            /\ xpc' = "failed"
            /\ UNCHANGED <<batch_results, xi>>
    /\ xtrail' = xtrail \o << Awaited(xret.kind, xi + 1), Awaited("commit", xi + 1) >>
    /\ UNCHANGED <<chainVars, callVars, mockVars, genVars, parseVars, jobVars, raceVars,
                   files, batches, current_batch, current_chars,
                   file_i, bpc, plan_call, plan_error, xbatches, xstack, xret, xlast,
                   xleaves>>

\* The loop has run through every batch; consolidation follows.
XLoopEnd ==
    /\ xpc = "loop"
    /\ xi = Len(xbatches)
    /\ xpc' = "consolidate"
    /\ UNCHANGED <<chainVars, callVars, batchVars, laterVars, xbatches, xi, xstack, xret,
                   batch_results, xlast, xleaves>>

\* The state at the for statement, the chain constructed and the batches
\* planned.
InitExec ==
    /\ providers \in { [i \in 1..Len(ps) |-> [cls |-> ps[i], is_available |-> TRUE]] :
                         ps \in { <<"GeminiProvider">> } }
    /\ available = AvailableOf(providers)
    /\ chain_state = "constructed"
    /\ preferred_index = 0
    /\ gpc = "idle"
    /\ offset = 0
    /\ idx = 0
    /\ attempt = 0
    /\ errors = <<>>
    /\ result = NoResult
    /\ attempt_log = <<>>
    /\ sleeps = <<>>
    /\ last_success = -1
    /\ entry_preferred = 0
    /\ files = <<>>
    /\ batches = <<>>
    /\ current_batch = <<>>
    /\ current_chars = 0
    /\ file_i = 1
    /\ bpc = "idle"
    /\ plan_call = NoCall
    /\ plan_error = NoResult
    /\ job_status = "analyzing"
    /\ xbatches \in ExecBatchLists
    /\ xi = 0
    /\ xpc = "loop"
    /\ xstack = <<>>
    /\ xret = NoResult
    /\ batch_results = <<>>
    /\ xlast = NoGeneration
    /\ xleaves = 0
    /\ MockIdle
    /\ GenIdle
    /\ LoopIdle
    /\ RaceIdle
    /\ JobIdle
    /\ ParseIdle

NextExec ==
    \/ XEnter
    \/ XFull
    \/ XPaths
    \/ XResume
    \/ XBatchDone
    \/ XLoopEnd

SpecExec == InitExec /\ [][NextExec]_vars


\* ------------------------------------------------------------------------
\* Claims about the adaptive batch executor
\* ------------------------------------------------------------------------
InSplit(f) == f.pc \in {"wait_left", "wait_right"}

\* C11: discover_batch is never entered with a depth greater than 2, and a
\* call that has split its batch holds at least 2 documents at a depth
\* below 2, whatever the generation calls did.
C11_DepthBounded ==
    \A k \in 1..Len(xstack) :
        /\ xstack[k].depth <= 2
        /\ InSplit(xstack[k]) => Len(xstack[k].files) >= 2 /\ xstack[k].depth < 2

\* A call at depth 2 that holds two documents has failed and goes on to the
\* path-only call instead of splitting; both calls above it have split.
C11_Witness ==
    /\ Len(xstack) = 3
    /\ Top.depth = 2
    /\ Len(Top.files) >= 2
    /\ Top.pc = "paths"
    /\ InSplit(xstack[1])
    /\ InSplit(xstack[2])

\* C12: a discover_batch call entered at depth 0 ends with a pair
\* (metrics, trace); it never ends with an exception.
C12_DepthZeroNeverRaises ==
    (xpc = "in_batch" /\ xstack = <<>> /\ xret # NoResult) => xret.kind = "return"

\* C13: for one original batch at most 4 discover_batch calls are leaves,
\* i.e. calls that did not split their batch.
C13_AtMostFourLeaves == xleaves <= 4

\* The batch was split into four sub-batches and the four results merged.
C13_Witness ==
    /\ xleaves = 4
    /\ xpc = "in_batch"
    /\ xstack = <<>>
    /\ xret.kind = "return"

\* C14: when the chain is exhausted in the full-content call of a batch,
\* discover_batch sees the failure: it splits the batch if it has at least
\* 2 documents at depth < 2 and otherwise goes on to the path-only call;
\* and the path-only call is made only for a batch that cannot be split.
C14_ExhaustionReachesExecutor ==
    /\ (xlast.call = "full" /\ xlast.cause = "exhausted") =>
          /\ xret = NoResult
          /\ xstack # <<>>
          /\ \/ /\ Top.pc = "paths"
                /\ Top.depth = xlast.depth
                /\ ~CanSplit(Top.files, Top.depth)
             \/ /\ Top.pc = "full"
                /\ Top.depth = xlast.depth + 1
                /\ xlast.n >= 2
    /\ \A k \in 1..Len(xstack) :
          xstack[k].pc = "paths" => ~CanSplit(xstack[k].files, xstack[k].depth)

\* the trace holds something: the fallback flag or an entry in one of its lists
TraceRecordsSomething(trace) ==
    \/ trace.fallback
    \/ Truthy(trace.batch_observations)
    \/ Truthy(trace.shortlist_criteria)
    \/ Truthy(trace.files_referenced)

PathOnlyFailed == xlast.call = "paths" /\ xlast.cause = "raised_before_try"

\* C15: when the path-only call fails too, discover_batch returns an empty
\* metric list without raising, the trace it returns records the failure,
\* and the loop of run_analysis goes on to the next batch.
C15_PathOnlyFailureRecorded ==
    (PathOnlyFailed /\ xret # NoResult /\ Len(xstack) = 0 /\ xlast.depth = 0) =>
        /\ xret.kind = "return"
        /\ xret.metrics = JList(<<>>)
        /\ TraceRecordsSomething(xret.trace)
        /\ job_status # "failed"

\* C16: a job with at least one readable file and a constructed chain never
\* takes the status 'failed' through its generative steps; in the planner
\* and executor no other step exists.
C16_OnlyNonGenerativeFailuresFail ==
    (files # <<>> /\ chain_state = "constructed") => job_status # "failed"


\* ------------------------------------------------------------------------
\* The mock-data fallback (generate_mock_data.fallback_mock_data)
\* ------------------------------------------------------------------------
Whitespace == {" ", "\n", "\t", "\r"}

RECURSIVE LStrip(_)
LStrip(s) == IF s # <<>> /\ s[1] \in Whitespace THEN LStrip(Tail(s)) ELSE s

RECURSIVE RStrip(_)
RStrip(s) ==
    IF s # <<>> /\ s[Len(s)] \in Whitespace THEN RStrip(SubSeq(s, 1, Len(s) - 1)) ELSE s

\* str.strip()
Strip(s) == RStrip(LStrip(s))

\* any(k in n for k in words)
ContainsAny(text, words) == \E k \in words : Contains(text, k)

\* ["error", "failure", "fail", "exception", "crash", "timeout"]
ErrorWords ==
    { <<"e", "r", "r", "o", "r">>,
      <<"f", "a", "i", "l", "u", "r", "e">>,
      <<"f", "a", "i", "l">>,
      <<"e", "x", "c", "e", "p", "t", "i", "o", "n">>,
      <<"c", "r", "a", "s", "h">>,
      <<"t", "i", "m", "e", "o", "u", "t">> }

\* ["latency", "response time", "duration", "time to", "ttfb"]
LatencyWords ==
    { <<"l", "a", "t", "e", "n", "c", "y">>,
      <<"r", "e", "s", "p", "o", "n", "s", "e", " ", "t", "i", "m", "e">>,
      <<"d", "u", "r", "a", "t", "i", "o", "n">>,
      <<"t", "i", "m", "e", " ", "t", "o">>,
      <<"t", "t", "f", "b">> }

\* ["throughput", "requests", "qps", "rps", "traffic", "hits"]
ThroughputWords ==
    { <<"t", "h", "r", "o", "u", "g", "h", "p", "u", "t">>,
      <<"r", "e", "q", "u", "e", "s", "t", "s">>,
      <<"q", "p", "s">>,
      <<"r", "p", "s">>,
      <<"t", "r", "a", "f", "f", "i", "c">>,
      <<"h", "i", "t", "s">> }

\* ["availability", "uptime"]
AvailabilityWords ==
    { <<"a", "v", "a", "i", "l", "a", "b", "i", "l", "i", "t", "y">>,
      <<"u", "p", "t", "i", "m", "e">> }

\* ["conversion", "ctr", "retention", "churn", "bounce"]
FunnelWords ==
    { <<"c", "o", "n", "v", "e", "r", "s", "i", "o", "n">>,
      <<"c", "t", "r">>,
      <<"r", "e", "t", "e", "n", "t", "i", "o", "n">>,
      <<"c", "h", "u", "r", "n">>,
      <<"b", "o", "u", "n", "c", "e">> }

\* ["users", "mau", "dau", "wau", "sessions", "active"]
UsageWords ==
    { <<"u", "s", "e", "r", "s">>,
      <<"m", "a", "u">>,
      <<"d", "a", "u">>,
      <<"w", "a", "u">>,
      <<"s", "e", "s", "s", "i", "o", "n", "s">>,
      <<"a", "c", "t", "i", "v", "e">> }

\* ["status", "state", "result"]
StatusWords ==
    { <<"s", "t", "a", "t", "u", "s">>,
      <<"s", "t", "a", "t", "e">>,
      <<"r", "e", "s", "u", "l", "t">> }

WordCache == <<"c", "a", "c", "h", "e">>

WordHit == <<"h", "i", "t">>

WordMiss == <<"m", "i", "s", "s">>

WordHitRate == <<"h", "i", "t", " ", "r", "a", "t", "e">>

infer_kind(metric_name) ==
    LET lowered == Lower(metric_name) IN
    IF ContainsAny(lowered, ErrorWords) THEN "error_rate"
    ELSE IF ContainsAny(lowered, LatencyWords) THEN "latency"
    ELSE IF ContainsAny(lowered, ThroughputWords) THEN "throughput"
    ELSE IF Contains(lowered, WordCache)
            /\ (Contains(lowered, WordHit) \/ Contains(lowered, WordMiss) \/ Contains(lowered, WordHitRate))
         THEN "cache_hit_rate"
    ELSE IF ContainsAny(lowered, AvailabilityWords) THEN "availability"
    ELSE IF ContainsAny(lowered, FunnelWords) THEN "funnel_rate"
    ELSE IF ContainsAny(lowered, UsageWords) THEN "usage"
    ELSE "generic"

NameErrorRate == <<"A", "P", "I", " ", "E", "r", "r", "o", "r", " ", "R", "a", "t", "e">>

NameLatency == <<"A", "P", "I", " ", "L", "a", "t", "e", "n", "c", "y", " ", "(", "P", "9", "5", ")">>


NameCacheHitRate == <<"C", "a", "c", "h", "e", " ", "H", "i", "t", " ", "R", "a", "t", "e">>

NameUptime == <<"U", "p", "t", "i", "m", "e">>

NameChurn == <<" ", "C", "h", "u", "r", "n", " ">>

NameActiveUsers == <<"A", "c", "t", "i", "v", "e", " ", "U", "s", "e", "r", "s">>


NameBuildStatus == <<"B", "u", "i", "l", "d", " ", "S", "t", "a", "t", "u", "s">>

NameBlank == <<" ">>

TypePercentage == <<"p", "e", "r", "c", "e", "n", "t", "a", "g", "e">>

TypePercentageCapital == <<"P", "e", "r", "c", "e", "n", "t", "a", "g", "e">>

TypeNumber == <<"n", "u", "m", "b", "e", "r">>

TypeBoolean == <<"b", "o", "o", "l", "e", "a", "n">>

TypeString == <<"s", "t", "r", "i", "n", "g">>

TypeNone == <<>>

NameMetric == <<"m", "e", "t", "r", "i", "c">>


\* Numbers are kept in thousandths; entry values, after round(v, 2), in
\* hundredths.
MaxMetrics == 2

MaxClock == 24

SERIES_DAYS == 30

PERCENT_MAX == 100000

\* a * b / c, rounded down, without leaving the machine integers
MulDiv(a, b, c) == (a \div c) * b + ((a % c) * b) \div c

Max2(a, b) == IF a >= b THEN a ELSE b

clamp(x, lo, hi) == Max2(lo, Min2(hi, x))

\* round(v, 2) of thousandths, in hundredths
Round2(v) == (v + 5) \div 10

\* The streams a seeded generator may yield, as percentiles of its draws.
RngPatterns == << <<50>>, <<0, 99>>, <<99, 50, 0>> >>

\* rng = random.Random(f"{workspace_name}:{len(metrics)}:v2"): the stream
\* is fixed by the seed, and every call starts it anew.
Seed == <<mk_workspace, Len(mk_metrics)>>

Draw(pos) ==
    LET stream == RngPatterns[rng_pattern[Seed]] IN stream[(pos % Len(stream)) + 1]

uniform(a, b, pos) == a + MulDiv(b - a, Draw(pos), 100)

gauss(sigma, pos) == MulDiv(sigma, Draw(pos) - 50, 10)

randint(a, b, pos) == a + (Draw(pos) % (b - a + 1))

\* rng.sample(range(30), k): k distinct day indices
sample(k, pos) == [j \in 1..k |-> (Draw(pos) + (j - 1) * 7) % SERIES_DAYS]

\* seasonal = 1.0 + 0.08 * (1 if (i % 7) in (1, 2, 3, 4, 5) else -1)
Seasonal(i) == IF (i % 7) \in 1..5 THEN 108 ELSE 92

RECURSIVE WalkFrom(_, _, _, _, _, _)
WalkFrom(i, x, baseline, volatility, mean_revert, pos) ==
    IF i = SERIES_DAYS THEN <<>>
    ELSE LET drift == MulDiv(baseline - x, mean_revert, 100)
             nx == MulDiv(x + drift + gauss(volatility, pos + i), Seasonal(i), 100)
         IN <<nx>> \o WalkFrom(i + 1, nx, baseline, volatility, mean_revert, pos)

series_random_walk(baseline, volatility, mean_revert, pos) ==
    WalkFrom(0, baseline, baseline, volatility, mean_revert, pos)

\* for s in rng.sample(range(30), k=rng.randint(1, hi)): vals[s] = change(vals[s], draw)
Anomalies(vals, hi, pos, change(_, _)) ==
    LET k == randint(1, hi, pos)
        picked == sample(k, pos + 1)
    IN [i \in 1..Len(vals) |->
          IF \E j \in 1..k : picked[j] = i - 1
          THEN change(vals[i], pos + 1 + (CHOOSE j \in 1..k : picked[j] = i - 1))
          ELSE vals[i]]

Map(vals, f(_)) == [i \in 1..Len(vals) |-> f(vals[i])]

\* the else branch of the data-type test: the 30 values before the final loop
NumericVals(kind, dt, pos) ==
    LET walk_pos == pos + 1
        anomaly_pos == pos + 1 + SERIES_DAYS
        NonNegative(v) == Max2(0, v)
        ClampPercent(v) == clamp(v, 0, PERCENT_MAX)
        AsFraction(v) == v \div 100
    IN
    CASE kind = "error_rate" ->
           LET baseline == uniform(100, 3000, pos)
               vals == series_random_walk(baseline, MulDiv(baseline, 25, 100), 25, walk_pos)
               Spike(v, q) == v + uniform(4000, 18000, q)
               spiked == Anomalies(vals, 3, anomaly_pos, Spike)
               ClampFraction(v) == clamp(v \div 100, 0, 1000)
           IN IF dt # TypePercentage THEN Map(spiked, ClampFraction)
              ELSE Map(spiked, ClampPercent)
      [] kind = "cache_hit_rate" ->
           LET baseline == uniform(78000, 97000, pos)
               vals == series_random_walk(baseline, 1800, 30, walk_pos)
               Dip(v, q) == v - uniform(6000, 15000, q)
               clamped == Map(Anomalies(vals, 2, anomaly_pos, Dip), ClampPercent)
           IN IF dt # TypePercentage THEN Map(clamped, AsFraction) ELSE clamped
      [] kind = "latency" ->
           LET baseline == uniform(120000, 900000, pos)
               vals == series_random_walk(baseline, MulDiv(baseline, 8, 100), 20, walk_pos)
               Slow(v, q) == MulDiv(v, uniform(1600, 2800, q), 1000)
           IN Map(Anomalies(vals, 2, anomaly_pos, Slow), NonNegative)
      [] kind \in {"throughput", "usage"} ->
           LET baseline == IF kind = "throughput" THEN uniform(500000, 15000000, pos)
                           ELSE uniform(50000, 6000000, pos)
               vals == series_random_walk(baseline, MulDiv(baseline, 10, 100), 15, walk_pos)
           IN Map(vals, NonNegative)
      [] kind = "funnel_rate" ->
           LET baseline == uniform(800, 9000, pos)
               vals == series_random_walk(baseline, MulDiv(baseline, 18, 100), 25, walk_pos)
               clamped == Map(vals, ClampPercent)
           IN IF dt # TypePercentage THEN Map(clamped, AsFraction) ELSE clamped
      [] OTHER ->
           LET baseline == uniform(10000, 800000, pos)
               vals == series_random_walk(baseline, MulDiv(baseline, 12, 100), 12, walk_pos)
           IN Map(vals, NonNegative)

\* the percentage branch without its clamp
FinalValue_Unclamped(v, dt) == Round2(v)

\* value = round(clamp(v, 0.0, 100.0), 2) if dt == "percentage" else round(v, 2)
FinalValue(v, dt) ==
    IF dt = TypePercentage THEN Round2(clamp(v, 0, PERCENT_MAX)) ELSE Round2(v)

\* ts = (now - timedelta(days=d)).replace(hour=12, minute=0, second=0, microsecond=0)
RecordedAt(now, d) == [day |-> (now \div 24) - d, hour |-> 12]


Metric(id, name, data_type) == [id |-> id, name |-> name, data_type |-> data_type]

\* name = (m.get("name") or "").strip() or "metric"
MetricName(m) == IF Strip(m.name) = <<>> THEN NameMetric ELSE Strip(m.name)

\* dt = (m.get("data_type") or "number").strip().lower()
MetricType(m) == Lower(Strip(IF m.data_type = <<>> THEN TypeNumber ELSE m.data_type))

\* rng.choices(labels, weights, k=1)[0]
Choice(name, pos) ==
    IF ContainsAny(Lower(name), StatusWords)
    THEN (IF Draw(pos) < 80 THEN "success" ELSE IF Draw(pos) < 92 THEN "failure" ELSE "pending")
    ELSE (IF Draw(pos) < 25 THEN "low" ELSE IF Draw(pos) < 80 THEN "medium" ELSE "high")

\* the entries of one metric: days = list(reversed(range(30))), oldest first
Entries(m, pos, now) ==
    LET name == MetricName(m)
        dt == MetricType(m)
        kind == infer_kind(name)
        vals == NumericVals(kind, dt, pos)
    IN [e \in 1..SERIES_DAYS |->
          [value |-> IF dt = TypeBoolean
                     THEN Draw(pos + e - 1) < (IF kind = "availability" THEN 97 ELSE 70)
                     ELSE IF dt = TypeString THEN Choice(name, pos + e - 1)
                     ELSE FinalValue(vals[e], dt),
           recorded_at |-> RecordedAt(now, SERIES_DAYS - e)]]

MockTrace == [fallback |-> TRUE]

fallback_mock_data(metrics, workspace_name, now) ==
    [kind |-> "return",
     mock_data |-> [i \in 1..Len(metrics) |->
                      [metric_id |-> metrics[i].id,
                       metric_name |-> MetricName(metrics[i]),
                       entries |-> Entries(metrics[i], (i - 1) * (SERIES_DAYS + 10), now)]],
     trace |-> MockTrace]

MetricPool ==
    { Metric("m-error", NameErrorRate, TypePercentage),
      Metric("m-latency", NameLatency, TypePercentageCapital),
      Metric("m-cache", NameCacheHitRate, TypeNumber),
      Metric("m-uptime", NameUptime, TypeBoolean),
      Metric("m-churn", NameChurn, TypePercentage),
      Metric("m-users", NameActiveUsers, TypeNone),
      Metric("m-status", NameBuildStatus, TypeString),
      Metric("m-blank", NameBlank, TypePercentage) }

\* the rows of one workspace: no id twice
MetricLists ==
    { ms \in UNION { [1..k -> MetricPool] : k \in 0..MaxMetrics } :
        \A i, j \in 1..Len(ms) : i # j => ms[i].id # ms[j].id }

Workspaces == {"acme/shop", "demo"}

\* One call of fallback_mock_data with the arguments of this behaviour.
MockCall ==
    /\ Len(mk_outs) < 2
    /\ mk_outs' = Append(mk_outs, fallback_mock_data(mk_metrics, mk_workspace, clock))
    /\ UNCHANGED <<chainVars, callVars, batchVars, execVars, genVars, parseVars,
                   mk_metrics, mk_workspace, clock, rng_pattern, jobVars, raceVars, loopVars>>

\* Time passes: datetime.now(timezone.utc) is read anew by every call.
Tick ==
    /\ clock + 12 <= MaxClock
    /\ clock' = clock + 12
    /\ UNCHANGED <<chainVars, callVars, batchVars, execVars, genVars, parseVars,
                   mk_metrics, mk_workspace, rng_pattern, mk_outs, jobVars, raceVars, loopVars>>

InitMock ==
    /\ chain_state = "none"
    /\ providers = <<>>
    /\ available = <<>>
    /\ preferred_index = 0
    /\ gpc = "idle"
    /\ offset = 0
    /\ idx = 0
    /\ attempt = 0
    /\ errors = <<>>
    /\ result = NoResult
    /\ attempt_log = <<>>
    /\ sleeps = <<>>
    /\ last_success = -1
    /\ entry_preferred = 0
    /\ files = <<>>
    /\ batches = <<>>
    /\ current_batch = <<>>
    /\ current_chars = 0
    /\ file_i = 1
    /\ bpc = "idle"
    /\ plan_call = NoCall
    /\ plan_error = NoResult
    /\ job_status = "completed"
    /\ ExecIdle
    /\ GenIdle
    /\ LoopIdle
    /\ RaceIdle
    /\ JobIdle
    /\ ParseIdle
    /\ mk_metrics \in MetricLists
    /\ mk_workspace \in Workspaces
    /\ clock = 0
    /\ rng_pattern \in [{Seed} -> 1..Len(RngPatterns)]
    /\ mk_outs = <<>>

NextMock ==
    \/ MockCall
    \/ Tick

SpecMock == InitMock /\ [][NextMock]_vars

\* ------------------------------------------------------------------------
\* Claims about the fallback synthesizers
\* ------------------------------------------------------------------------
\* C18: two calls of a fallback synthesizer with the same inputs return the
\* same output; for the mock-data synthesizer, given the same metric list
\* and workspace name, the same series: every value and every recorded_at.
C18_SynthesizerDeterministic ==
    Len(mk_outs) = 2 => mk_outs[1] = mk_outs[2]

IsPercentage(m) == MetricType(m) = TypePercentage

\* C19: every entry of a metric of data type 'percentage' has a value in
\* [0, 100] (here in hundredths), and the output holds, for every metric of
\* the input and in its order, one series of 30 entries on 30 successive
\* days.
C19_PercentInRangeThirtyEntries ==
    \A c \in 1..Len(mk_outs) :
        LET out == mk_outs[c].mock_data IN
        /\ Len(out) = Len(mk_metrics)
        /\ \A i \in 1..Len(out) :
              /\ out[i].metric_id = mk_metrics[i].id
              /\ Len(out[i].entries) = 30
              /\ \A e \in 1..Len(out[i].entries) :
                    /\ e > 1 => out[i].entries[e].recorded_at.day
                                   = out[i].entries[e - 1].recorded_at.day + 1
                    /\ IsPercentage(mk_metrics[i]) =>
                          /\ out[i].entries[e].value >= 0
                          /\ out[i].entries[e].value <= 10000

\* A percentage metric whose kind is latency: its walk runs far above 100
\* and every entry was clamped to 100; next to it an error-rate series.
C19_Witness ==
    /\ Len(mk_outs) >= 1
    /\ Len(mk_metrics) = 2
    /\ IsPercentage(mk_metrics[1])
    /\ infer_kind(MetricName(mk_metrics[1])) = "latency"
    /\ \A e \in 1..SERIES_DAYS : mk_outs[1].mock_data[1].entries[e].value = 10000
    /\ IsPercentage(mk_metrics[2])
    /\ infer_kind(MetricName(mk_metrics[2])) = "error_rate"


\* ------------------------------------------------------------------------
\* The other public generation functions and their synthesizers
\* ------------------------------------------------------------------------
\* A path is kept as its segments: "src/b.py" is <<"src", "b.py">>.
FileTrees == { <<>>, << <<"a.py">> >>, << <<"shop", "src", "b.py">>, <<"a.py">> >> }

\* fallback() of analyze_project_overview: the name is the top-level folder
\* of the first path when that path has one.
overview_fallback(file_tree, key_paths) ==
    LET project_name ==
            IF file_tree # <<>> /\ Len(file_tree[1]) > 1 THEN file_tree[1][1] ELSE ""
    IN [kind |-> "return",
        summary |-> [project_name |-> JStr(IF project_name # "" THEN project_name
                                           ELSE "Unknown Project"),
                     domain |-> "unknown",
                     key_entities |-> <<>>],
        trace |-> [fallback |-> TRUE, key_files_used |-> Take(key_paths, 12)]]

analyze_project_overview(file_tree, key_paths, env) ==
    IF env.pre = "raise" THEN Raised("Exception")
    ELSE IF env.chain = "exhausted" \/ env.parse = "unparsable"
         THEN overview_fallback(file_tree, key_paths)
    ELSE IF env.result_is_dict /\ Truthy(Get(env.primary, JNull))
         THEN [kind |-> "return",
               summary |-> [project_name |-> env.primary, domain |-> "from model",
                            key_entities |-> <<>>],
               trace |-> env.trace]
    ELSE overview_fallback(file_tree, key_paths)

Alnum ==
    {"a", "b", "c", "d", "e", "f", "g", "h", "i", "j", "k", "l", "m", "n", "o", "p", "q",
     "r", "s", "t", "u", "v", "w", "x", "y", "z", "0", "1", "2", "3", "4", "5", "6", "7",
     "8", "9"}

\* norm(s): "".join(ch.lower() for ch in s.strip() if ch.isalnum())
norm(s) == SelectSeq(Lower(Strip(s)), LAMBDA ch : ch \in Alnum)

RECURSIVE FlattenNamed(_)
FlattenNamed(results) ==
    IF results = <<>> THEN <<>>
    ELSE SelectSeq(Head(results), LAMBDA m : m.name # <<>>)
            \o FlattenNamed(Tail(results))

\* fallback_consolidate: the first metric of every normalized name, and a
\* note for every later one.
fallback_consolidate(results) ==
    LET flat == FlattenNamed(results)
        IsFirst(k) == norm(flat[k].name) # <<>>
                      /\ \A j \in 1..(k - 1) : norm(flat[j].name) # norm(flat[k].name)
        IsLater(k) == norm(flat[k].name) # <<>> /\ ~IsFirst(k)
        Keep(keep(_)) ==
            LET RECURSIVE From(_)
                From(k) == IF k > Len(flat) THEN <<>>
                           ELSE (IF keep(k) THEN <<flat[k]>> ELSE <<>>) \o From(k + 1)
            IN From(1)
    IN [kind |-> "return",
        metrics |-> Take(Keep(IsFirst), 25),
        trace |-> [fallback |-> TRUE, merged |-> Take(Keep(IsLater), 10), dropped |-> <<>>]]

consolidate_metrics(results, env) ==
    IF env.pre = "raise" THEN Raised("Exception")
    ELSE IF env.chain = "exhausted" \/ env.parse = "unparsable"
         THEN fallback_consolidate(results)
    ELSE IF Truthy(PrimaryOf(env))
         THEN [kind |-> "return", metrics |-> PrimaryOf(env), trace |-> env.trace]
    ELSE fallback_consolidate(results)

generate_mock_data(metrics, workspace_name, now, env) ==
    IF env.pre = "raise" THEN Raised("Exception")
    ELSE IF env.chain = "exhausted" \/ env.parse = "unparsable"
         THEN fallback_mock_data(metrics, workspace_name, now)
    ELSE IF ~Truthy(PrimaryOf(env)) THEN fallback_mock_data(metrics, workspace_name, now)
    ELSE [kind |-> "return", mock_data |-> PrimaryOf(env), trace |-> env.trace]

\* fallback_plan(): four workspace-wide cards
fallback_plan(workspace_name) ==
    [kind |-> "return",
     plan |-> [dashboard_name |-> <<workspace_name, " - Metrics">>,
               cards |-> JList(<<"Total Entries (Last 30d)", "Entries Over Time (Last 30d)",
                                 "Top Metrics by Entry Count", "Latest Values">>)],
     trace |-> [fallback |-> TRUE]]

generate_dashboard_plan(metrics, workspace_name, env) ==
    IF env.pre = "raise" THEN Raised("Exception")
    ELSE IF env.chain = "exhausted" \/ env.parse = "unparsable"
         THEN fallback_plan(workspace_name)
    ELSE IF ~env.result_is_dict \/ ~Truthy(Get(env.primary, JNull))
         THEN fallback_plan(workspace_name)
    ELSE [kind |-> "return",
          plan |-> [dashboard_name |-> <<"from model">>, cards |-> env.primary],
          trace |-> env.trace]


OverviewEnvs ==
    FailureEnvs \cup
    { GenEnv("ok", "text", "ok", TRUE, JStr(""), EmptyTrace),
      GenEnv("ok", "text", "ok", TRUE, JStr("shop"), EmptyTrace) }

MockEnvs ==
    FailureEnvs \cup
    { GenEnv("ok", "text", "ok", TRUE,
             JList(<< [metric_id |-> "m-error", entries |-> <<>>] >>), EmptyTrace) }

PlanEnvs ==
    FailureEnvs \cup
    { GenEnv("ok", "text", "ok", TRUE, JList(<<"card">>), EmptyTrace) }

KeyPathLists == { <<>>, <<"README.md">> }

BatchResultLists ==
    { <<>>,
      << << [name |-> NameErrorRate], [name |-> NameLatency] >>,
         << [name |-> Lower(NameErrorRate)], [name |-> <<>>] >> >> }

Called(call, arg, env) == [call |-> call, cause |-> EnvCause(env), arg |-> arg]

GenOverview ==
    /\ gen_call = NoGeneration
    /\ \E file_tree \in FileTrees, key_paths \in KeyPathLists, env \in OverviewEnvs :
        /\ gen_call' = Called("overview",
                              [file_tree |-> file_tree, key_paths |-> key_paths], env)
        /\ gen_result' = analyze_project_overview(file_tree, key_paths, env)
    /\ UNCHANGED <<chainVars, callVars, batchVars, execVars, mockVars, parseVars, jobVars, raceVars, loopVars>>

GenDiscover ==
    /\ gen_call = NoGeneration
    /\ \E k \in 1..2 : \E env \in GenEnvs("from content", PathsOf(SmallDocs(k))) :
        /\ gen_call' = Called("discover", SmallDocs(k), env)
        /\ gen_result' = discover_metrics(SmallDocs(k), env)
    /\ UNCHANGED <<chainVars, callVars, batchVars, execVars, mockVars, parseVars, jobVars, raceVars, loopVars>>

GenDiscoverPaths ==
    /\ gen_call = NoGeneration
    /\ \E k \in 1..2 : \E env \in GenEnvs("from paths", PathsOf(SmallDocs(k))) :
        /\ gen_call' = Called("discover_paths", PathsOf(SmallDocs(k)), env)
        /\ gen_result' = discover_metrics_from_paths(PathsOf(SmallDocs(k)), env)
    /\ UNCHANGED <<chainVars, callVars, batchVars, execVars, mockVars, parseVars, jobVars, raceVars, loopVars>>

GenConsolidate ==
    /\ gen_call = NoGeneration
    /\ \E results \in BatchResultLists, env \in GenEnvs("consolidated", <<>>) :
        /\ gen_call' = Called("consolidate", results, env)
        /\ gen_result' = consolidate_metrics(results, env)
    /\ UNCHANGED <<chainVars, callVars, batchVars, execVars, mockVars, parseVars, jobVars, raceVars, loopVars>>

GenMockData ==
    /\ gen_call = NoGeneration
    /\ \E env \in MockEnvs :
        /\ gen_call' = Called("mock_data", "arguments", env)
        /\ gen_result' = generate_mock_data(mk_metrics, mk_workspace, clock, env)
    /\ UNCHANGED <<chainVars, callVars, batchVars, execVars, mockVars, parseVars, jobVars, raceVars, loopVars>>

GenDashboardPlan ==
    /\ gen_call = NoGeneration
    /\ \E env \in PlanEnvs :
        /\ gen_call' = Called("dashboard_plan", "arguments", env)
        /\ gen_result' = generate_dashboard_plan(mk_metrics, mk_workspace, env)
    /\ UNCHANGED <<chainVars, callVars, batchVars, execVars, mockVars, parseVars, jobVars, raceVars, loopVars>>

\* A job at the point of a generation call: the arguments of the two
\* reporting calls are those of the mock-data specification.
InitGen ==
    /\ chain_state = "none"
    /\ providers = <<>>
    /\ available = <<>>
    /\ preferred_index = 0
    /\ gpc = "idle"
    /\ offset = 0
    /\ idx = 0
    /\ attempt = 0
    /\ errors = <<>>
    /\ result = NoResult
    /\ attempt_log = <<>>
    /\ sleeps = <<>>
    /\ last_success = -1
    /\ entry_preferred = 0
    /\ files = <<>>
    /\ batches = <<>>
    /\ current_batch = <<>>
    /\ current_chars = 0
    /\ file_i = 1
    /\ bpc = "idle"
    /\ plan_call = NoCall
    /\ plan_error = NoResult
    /\ job_status = "analyzing"
    /\ ExecIdle
    /\ GenIdle
    /\ LoopIdle
    /\ RaceIdle
    /\ JobIdle
    /\ ParseIdle
    /\ mk_metrics \in MetricLists
    /\ mk_workspace \in Workspaces
    /\ clock = 0
    /\ rng_pattern \in [{Seed} -> 1..Len(RngPatterns)]
    /\ mk_outs = <<>>

NextGen ==
    \/ GenOverview
    \/ GenDiscover
    \/ GenDiscoverPaths
    \/ GenConsolidate
    \/ GenMockData
    \/ GenDashboardPlan

SpecGen == InitGen /\ [][NextGen]_vars

\* what the synthesizer of the kind called yields for the arguments of the call
SynthesizerOutput ==
    CASE gen_call.call = "overview" ->
           overview_fallback(gen_call.arg.file_tree, gen_call.arg.key_paths)
      [] gen_call.call = "discover" -> heuristic_metric_fallback(PathsOf(gen_call.arg))
      [] gen_call.call = "discover_paths" -> heuristic_metric_fallback(gen_call.arg)
      [] gen_call.call = "consolidate" -> fallback_consolidate(gen_call.arg)
      [] gen_call.call = "mock_data" -> fallback_mock_data(mk_metrics, mk_workspace, clock)
      [] gen_call.call = "dashboard_plan" -> fallback_plan(mk_workspace)

SynthesizerCases == {"exhausted", "unparsable", "empty_payload"}

\* C17: for each of the six generation kinds, when the chain is exhausted,
\* the text cannot be parsed, or the primary payload is empty or missing,
\* the public function does not raise and returns the output of the kind's
\* synthesizer, whose trace reaches the caller with fallback = true.
C17_SynthesizerOnFailure ==
    (gen_call.call # "none" /\ gen_call.cause \in SynthesizerCases) =>
        /\ gen_result.kind = "return"
        /\ gen_result.trace.fallback
        /\ gen_result = SynthesizerOutput

\* Path-only discovery got an object without metrics and answered with the
\* heuristic metrics of its two paths.
C17_Witness ==
    /\ gen_call.call = "discover_paths"
    /\ gen_call.cause = "empty_payload"
    /\ Len(gen_call.arg) = 2
    /\ gen_result.kind = "return"
    /\ gen_result.trace.fallback
    /\ Len(gen_result.metrics.items) = 5

\* Mock data after exhaustion of the chain: one series per metric.
C17_WitnessMockData ==
    /\ gen_call.call = "mock_data"
    /\ gen_call.cause = "exhausted"
    /\ Len(mk_metrics) = 2
    /\ gen_result.trace.fallback
    /\ Len(gen_result.mock_data) = 2


\* ------------------------------------------------------------------------
\* JSON text: json.dumps and json.loads over character tuples.  Numbers
\* are integers and strings hold no escape sequences.
\* ------------------------------------------------------------------------
JNum(k) == [t |-> "num", n |-> k]

JBool(b) == [t |-> "bool", b |-> b]

\* an object: its keys in insertion order and their values
JObj(keys, vals) == [t |-> "dict", keys |-> keys, vals |-> vals]

Digits == <<"0", "1", "2", "3", "4", "5", "6", "7", "8", "9">>

DigitVal(c) == CHOOSE d \in 0..9 : Digits[d + 1] = c

IsDigit(c) == \E d \in 1..10 : Digits[d] = c

RECURSIVE DigitsOf(_)
DigitsOf(k) == IF k < 10 THEN <<Digits[k + 1]>> ELSE DigitsOf(k \div 10) \o <<Digits[(k % 10) + 1]>>

RECURSIVE Join(_, _)
Join(parts, sep) ==
    IF parts = <<>> THEN <<>>
    ELSE IF Len(parts) = 1 THEN parts[1]
    ELSE parts[1] \o sep \o Join(Tail(parts), sep)

\* the characters json.dumps writes behind a backslash, and what each stands for
Escapes == << <<"\"", "\"">>, <<"\\", "\\">>, <<"n", "\n">>, <<"t", "\t">>, <<"r", "\r">>,
              <<"/", "/">>, <<"b", "backspace">>, <<"f", "formfeed">> >>

EscapeLetters == {Escapes[k][1] : k \in 1..Len(Escapes)}

Unescape(letter) == (CHOOSE k \in 1..Len(Escapes) : Escapes[k][1] = letter)

\* json.dumps never escapes the solidus
Escaped == {Escapes[k][2] : k \in 1..Len(Escapes)} \ {"/"}

EscapeOf(c) == Escapes[CHOOSE k \in 1..Len(Escapes) : Escapes[k][2] = c][1]

RECURSIVE Escape(_)
Escape(chars) ==
    IF chars = <<>> THEN <<>>
    ELSE (IF chars[1] \in Escaped THEN <<"\\", EscapeOf(chars[1])>> ELSE <<chars[1]>>)
             \o Escape(Tail(chars))

Quoted(chars) == <<"\"">> \o Escape(chars) \o <<"\"">>

\* json.dumps(v) with its default separators ", " and ": "
RECURSIVE Render(_)
Render(v) ==
    CASE v.t = "num" -> (IF v.n < 0 THEN <<"-">> \o DigitsOf(-v.n) ELSE DigitsOf(v.n))
      [] v.t = "str" -> Quoted(v.s)
      [] v.t = "null" -> <<"n", "u", "l", "l">>
      [] v.t = "bool" -> (IF v.b THEN <<"t", "r", "u", "e">> ELSE <<"f", "a", "l", "s", "e">>)
      [] v.t = "list" ->
           <<"[">> \o Join([i \in 1..Len(v.items) |-> Render(v.items[i])], <<",", " ">>)
                   \o <<"]">>
      [] v.t = "dict" ->
           <<"{">> \o Join([i \in 1..Len(v.keys) |->
                              Quoted(v.keys[i]) \o <<":", " ">> \o Render(v.vals[i])],
                           <<",", " ">>)
                   \o <<"}">>

ParseFail == [ok |-> FALSE]

ParseOk(v, pos) == [ok |-> TRUE, val |-> v, pos |-> pos]

At(s, i) == IF i >= 1 /\ i <= Len(s) THEN s[i] ELSE "EOF"

StartsAt(s, i, m) == i >= 1 /\ i + Len(m) - 1 <= Len(s) /\ SubSeq(s, i, i + Len(m) - 1) = m

RECURSIVE SkipWs(_, _)
SkipWs(s, i) == IF At(s, i) \in Whitespace THEN SkipWs(s, i + 1) ELSE i

\* the characters of a string up to its closing quote; a backslash takes
\* the next character with it (\uXXXX is not in the alphabet); a raw control
\* character ends the parse
RECURSIVE ScanString(_, _, _)
ScanString(s, i, acc) ==
    IF i > Len(s) THEN ParseFail
    ELSE IF s[i] = "\"" THEN ParseOk(acc, i + 1)
    ELSE IF s[i] = "\\" THEN (IF At(s, i + 1) \in EscapeLetters
                              THEN ScanString(s, i + 2, Append(acc, Escapes[Unescape(s[i + 1])][2]))
                              ELSE ParseFail)
    ELSE IF s[i] \in {"\n", "\t", "\r", "backspace", "formfeed"} THEN ParseFail
    ELSE ScanString(s, i + 1, Append(acc, s[i]))

RECURSIVE ScanDigits(_, _, _)
ScanDigits(s, i, acc) ==
    IF IsDigit(At(s, i)) THEN ScanDigits(s, i + 1, acc * 10 + DigitVal(s[i]))
    ELSE ParseOk(acc, i)

ParseNumber(s, i) ==
    IF At(s, i) = "-"
    THEN (IF IsDigit(At(s, i + 1))
          THEN LET r == ScanDigits(s, i + 1, 0) IN ParseOk(JNum(-r.val), r.pos)
          ELSE ParseFail)
    ELSE LET r == ScanDigits(s, i, 0) IN ParseOk(JNum(r.val), r.pos)

\* dict semantics: a repeated key keeps its place and takes the new value
PutKey(obj, key, val) ==
    IF \E k \in 1..Len(obj.keys) : obj.keys[k] = key
    THEN JObj(obj.keys, [k \in 1..Len(obj.keys) |->
                            IF obj.keys[k] = key THEN val ELSE obj.vals[k]])
    ELSE JObj(Append(obj.keys, key), Append(obj.vals, val))

RECURSIVE ParseValue(_, _)
RECURSIVE ParseMembers(_, _, _)
RECURSIVE ParseElements(_, _, _)

ParseMembers(s, i, obj) ==
    LET j == SkipWs(s, i) IN
    IF At(s, j) # "\"" THEN ParseFail
    ELSE LET key == ScanString(s, j + 1, <<>>) IN
         IF ~key.ok THEN ParseFail
         ELSE LET c == SkipWs(s, key.pos) IN
              IF At(s, c) # ":" THEN ParseFail
              ELSE LET v == ParseValue(s, c + 1) IN
                   IF ~v.ok THEN ParseFail
                   ELSE LET q == SkipWs(s, v.pos)
                            next == PutKey(obj, key.val, v.val)
                        IN IF At(s, q) = "," THEN ParseMembers(s, q + 1, next)
                           ELSE IF At(s, q) = "}" THEN ParseOk(next, q + 1)
                           ELSE ParseFail

ParseElements(s, i, items) ==
    LET v == ParseValue(s, i) IN
    IF ~v.ok THEN ParseFail
    ELSE LET q == SkipWs(s, v.pos) IN
         IF At(s, q) = "," THEN ParseElements(s, q + 1, Append(items, v.val))
         ELSE IF At(s, q) = "]" THEN ParseOk(JList(Append(items, v.val)), q + 1)
         ELSE ParseFail

ParseValue(s, i) ==
    LET j == SkipWs(s, i) IN
    CASE At(s, j) = "{" ->
           (IF At(s, SkipWs(s, j + 1)) = "}"
            THEN ParseOk(JObj(<<>>, <<>>), SkipWs(s, j + 1) + 1)
            ELSE ParseMembers(s, j + 1, JObj(<<>>, <<>>)))
      [] At(s, j) = "[" ->
           (IF At(s, SkipWs(s, j + 1)) = "]"
            THEN ParseOk(JList(<<>>), SkipWs(s, j + 1) + 1)
            ELSE ParseElements(s, j + 1, <<>>))
      [] At(s, j) = "\"" ->
           LET r == ScanString(s, j + 1, <<>>) IN
           IF r.ok THEN ParseOk(JStr(r.val), r.pos) ELSE ParseFail
      [] IsDigit(At(s, j)) \/ At(s, j) = "-" -> ParseNumber(s, j)
      [] StartsAt(s, j, <<"t", "r", "u", "e">>) -> ParseOk(JBool(TRUE), j + 4)
      [] StartsAt(s, j, <<"f", "a", "l", "s", "e">>) -> ParseOk(JBool(FALSE), j + 5)
      [] StartsAt(s, j, <<"n", "u", "l", "l">>) -> ParseOk(JNull, j + 4)
      [] OTHER -> ParseFail

\* json.loads(s): one value, then nothing but whitespace
json_loads(s) ==
    LET r == ParseValue(s, 1) IN
    IF r.ok /\ SkipWs(s, r.pos) > Len(s) THEN r ELSE ParseFail


\* ------------------------------------------------------------------------
\* The output extractor (_parse_json_with_thought, _parse_json_with_trace)
\* ------------------------------------------------------------------------
\* the backquote character, which a string of this notation cannot hold
Backtick == "backquote"

Fence == <<Backtick, Backtick, Backtick>>

WordJson == <<"j", "s", "o", "n">>

FenceJson == Fence \o WordJson

ThinkingOpen == <<"<", "t", "h", "i", "n", "k", "i", "n", "g", ">">>

ThinkingClose == <<"<", "/", "t", "h", "i", "n", "k", "i", "n", "g", ">">>

SetMax(S) == CHOOSE x \in S : \A y \in S : x >= y

Occurrences(s, m, from) == {i \in from..Len(s) : StartsAt(s, i, m)}

\* str.find: the first position from `from` on, 0 when there is none
Find(s, m, from) ==
    IF Occurrences(s, m, from) = {} THEN 0 ELSE SetMin(Occurrences(s, m, from))

FindLast(s, m) ==
    IF Occurrences(s, m, 1) = {} THEN 0 ELSE SetMax(Occurrences(s, m, 1))

Suffix(s, i) == SubSeq(s, i, Len(s))

Count(s, c) == Cardinality({i \in 1..Len(s) : s[i] = c})

Repeat(c, k) == [i \in 1..k |-> c]

\* re.sub(r"<thinking>[\s\S]*?(?:</thinking>|$)", "", raw, flags=re.IGNORECASE)
RECURSIVE RemoveThinking(_)
RemoveThinking(raw) ==
    LET open == Find(Lower(raw), ThinkingOpen, 1)
        close == Find(Lower(raw), ThinkingClose, open + Len(ThinkingOpen))
    IN IF open = 0 THEN raw
       ELSE IF close = 0 THEN SubSeq(raw, 1, open - 1)
       ELSE SubSeq(raw, 1, open - 1)
               \o RemoveThinking(Suffix(raw, close + Len(ThinkingClose)))

\* json_start = raw.find("```json"), else raw.find("{")
JsonStart(raw) ==
    IF Find(raw, FenceJson, 1) # 0 THEN Find(raw, FenceJson, 1) ELSE Find(raw, <<"{">>, 1)

\* clean_raw
CleanRaw(raw) ==
    IF JsonStart(raw) # 0 THEN Strip(Suffix(raw, JsonStart(raw)))
    ELSE Strip(RemoveThinking(raw))

NoMatch == [found |-> FALSE]

Match(text) == [found |-> TRUE, text |-> text]

\* where the text after an opening fence at p begins: behind the optional
\* word json and the whitespace
AfterFence(clean, p) ==
    SkipWs(clean, IF StartsAt(clean, p + 3, WordJson) THEN p + 3 + Len(WordJson) ELSE p + 3)

\* r"```(?:json)?\s*(\{[\s\S]*\})\s*```" at the fence p: the braces from the
\* first "{" to the last "}" that only whitespace separates from a fence
ObjectEnds(clean, p) ==
    {e \in (AfterFence(clean, p) + 1)..Len(clean) :
        clean[e] = "}" /\ StartsAt(clean, SkipWs(clean, e + 1), Fence)}

FencedObjectAt(clean, p) ==
    At(clean, AfterFence(clean, p)) = "{" /\ ObjectEnds(clean, p) # {}

\* r"```(?:json)?\s*([\s\S]*?)\s*```" at the fence p: the shortest text
\* that only whitespace separates from the next fence
BlockEnds(clean, p) ==
    {g \in (AfterFence(clean, p) - 1)..Len(clean) :
        StartsAt(clean, SkipWs(clean, g + 1), Fence)}

\* no fenced block is looked for
FencedCandidate_None(clean) == NoMatch

\* the candidate of the second strategy
FencedCandidate(clean) ==
    LET fences == Occurrences(clean, Fence, 1)
        objects == {p \in fences : FencedObjectAt(clean, p)}
        blocks == {p \in fences : BlockEnds(clean, p) # {}}
    IN IF objects # {}
       THEN LET p == SetMin(objects) IN
            Match(SubSeq(clean, AfterFence(clean, p), SetMax(ObjectEnds(clean, p))))
       ELSE IF blocks # {}
       THEN LET p == SetMin(blocks) IN
            Match(SubSeq(clean, AfterFence(clean, p), SetMin(BlockEnds(clean, p))))
       ELSE NoMatch

\* r"(\{[\s\S]*\})": the first "{" to the last "}"
SpanCandidate(clean) ==
    LET i == Find(clean, <<"{">>, 1)
        j == FindLast(clean, <<"}">>)
    IN IF i # 0 /\ j > i THEN Match(SubSeq(clean, i, j)) ELSE NoMatch

\* the truncated text from its first "{", closed by the missing "}" and "]"
BalancedCandidate(clean) ==
    LET i == Find(clean, <<"{">>, 1) IN
    IF i = 0 THEN NoMatch
    ELSE LET candidate == Strip(Suffix(clean, i))
             open_braces == Count(candidate, "{") - Count(candidate, "}")
             open_brackets == Count(candidate, "[") - Count(candidate, "]")
         IN Match(candidate \o Repeat("}", Max2(0, open_braces))
                            \o Repeat("]", Max2(0, open_brackets)))

\* re.sub(r",\s*([\]}])", r"\1", candidate)
RECURSIVE StripTrailingCommas(_)
StripTrailingCommas(candidate) ==
    IF candidate = <<>> THEN <<>>
    ELSE IF candidate[1] = "," /\ At(candidate, SkipWs(candidate, 2)) \in {"]", "}"}
         THEN StripTrailingCommas(Suffix(candidate, SkipWs(candidate, 2)))
    ELSE <<candidate[1]>> \o StripTrailingCommas(Tail(candidate))


\* the keys the last strategy looks for, in its order
KnownKeys == <<<<"m", "o", "c", "k", "_", "d", "a", "t", "a">>, <<"m", "e", "t", "r", "i", "c", "s">>, <<"c", "a", "r", "d", "s">>, <<"i", "n", "s", "i", "g", "h", "t", "s">>>>

\* rf'"{key}"\s*:\s*(\[[\s\S]*\])': the list from its "[" to the last "]"
ListStartAfter(clean, k, key) ==
    LET colon == SkipWs(clean, k + Len(Quoted(key)))
        bracket == SkipWs(clean, colon + 1)
    IN IF At(clean, colon) = ":" /\ At(clean, bracket) = "["
          /\ FindLast(clean, <<"]">>) > bracket
       THEN bracket ELSE 0

KeyCandidate(clean, key) ==
    LET at == {k \in Occurrences(clean, Quoted(key), 1) : ListStartAfter(clean, k, key) # 0}
    IN IF at = {} THEN NoMatch
       ELSE Match(SubSeq(clean, ListStartAfter(clean, SetMin(at), key),
                         FindLast(clean, <<"]">>)))

\* the group of r"<thinking>([\s\S]*?)(?:</thinking>|$)", stripped
ThoughtIn(text, default) ==
    LET open == Find(Lower(text), ThinkingOpen, 1)
        from == open + Len(ThinkingOpen)
        close == Find(Lower(text), ThinkingClose, from)
    IN IF open = 0 THEN default
       ELSE Strip(SubSeq(text, from, IF close = 0 THEN Len(text) ELSE close - 1))

Thought(raw) ==
    IF JsonStart(raw) # 0
    THEN ThoughtIn(SubSeq(raw, 1, JsonStart(raw) - 1), ThoughtIn(raw, <<>>))
    ELSE ThoughtIn(raw, <<>>)

Parsed(res, thought, tried) ==
    [kind |-> "return", res |-> res, thought |-> thought, tried |-> tried]

Unparsable(tried) == [kind |-> "raise", type |-> "ValueError", tried |-> tried]

\* json.loads of a candidate, when there is one
Loads(candidate) == IF candidate.found THEN json_loads(candidate.text) ELSE ParseFail

Tried(candidate, name) == IF candidate.found THEN <<name>> ELSE <<>>

\* the loop over the known keys, from the key numbered k on
RECURSIVE KeyStrategy(_, _, _, _)
KeyStrategy(clean, k, thought, tried) ==
    IF k > Len(KnownKeys) THEN Unparsable(tried)
    ELSE LET candidate == KeyCandidate(clean, KnownKeys[k])
             now == tried \o Tried(candidate, "key")
         IN IF Loads(candidate).ok
            THEN Parsed(JObj(<<KnownKeys[k]>>, <<Loads(candidate).val>>), thought, now)
            ELSE KeyStrategy(clean, k + 1, thought, now)

\* the strategies behind the fenced block: the brace span, then either the
\* balanced text (no span) or the span without its trailing commas
SpanStrategy(clean, thought, tried) ==
    LET span == SpanCandidate(clean)
        balanced == BalancedCandidate(clean)
        fixed == Match(StripTrailingCommas(span.text))
    IN IF ~span.found
       THEN (IF Loads(balanced).ok
             THEN Parsed(Loads(balanced).val, thought, tried \o Tried(balanced, "balanced"))
             ELSE KeyStrategy(clean, 1, thought, tried \o Tried(balanced, "balanced")))
       ELSE IF Loads(span).ok THEN Parsed(Loads(span).val, thought, tried \o <<"span">>)
       ELSE IF Loads(fixed).ok
            THEN Parsed(Loads(fixed).val, thought, tried \o <<"span", "commas">>)
       ELSE KeyStrategy(clean, 1, thought, tried \o <<"span", "commas">>)

FencedStrategy(clean, thought, tried) ==
    LET fenced == FencedCandidate(clean) IN
    IF Loads(fenced).ok THEN Parsed(Loads(fenced).val, thought, tried \o <<"fenced">>)
    ELSE SpanStrategy(clean, thought, tried \o Tried(fenced, "fenced"))

\* _parse_json_with_thought: the strategies in their order, the first
\* candidate that loads is returned
parse_json_with_thought(raw) ==
    IF raw = <<>> THEN Unparsable(<<>>)
    ELSE LET clean == CleanRaw(raw)
             direct == IF clean # <<>> THEN Match(clean) ELSE NoMatch
         IN IF Loads(direct).ok
            THEN Parsed(Loads(direct).val, Thought(raw), <<"direct">>)
            ELSE FencedStrategy(clean, Thought(raw), Tried(direct, "direct"))

HasKey(obj, key) == \E k \in 1..Len(obj.keys) : obj.keys[k] = key

Member(obj, key) ==
    IF \E k \in 1..Len(obj.keys) : obj.keys[k] = key
    THEN obj.vals[CHOOSE k \in 1..Len(obj.keys) : obj.keys[k] = key]
    ELSE JMissing

EmptyObject == JObj(<<>>, <<>>)

KeyTrace == <<"t", "r", "a", "c", "e">>

\* the value under "trace" is handed on whatever it is
parse_json_with_trace_AnyTrace(raw) ==
    LET r == parse_json_with_thought(raw) IN
    IF r.kind = "raise" THEN Raised(r.type)
    ELSE [kind |-> "return", res |-> r.res,
          trace |-> IF r.res.t = "dict" /\ HasKey(r.res, KeyTrace)
                    THEN Member(r.res, KeyTrace) ELSE EmptyObject]

\* _parse_json_with_trace: the payload and its "trace" object, or an
\* empty one
parse_json_with_trace(raw) ==
    LET r == parse_json_with_thought(raw) IN
    IF r.kind = "raise" THEN Raised(r.type)
    ELSE [kind |-> "return", res |-> r.res,
          trace |-> IF r.res.t = "dict" /\ Member(r.res, KeyTrace).t = "dict"
                    THEN Member(r.res, KeyTrace) ELSE EmptyObject]


\* ------------------------------------------------------------------------
\* The extractor applied to backend texts
\* ------------------------------------------------------------------------
KeyMetrics == <<"m", "e", "t", "r", "i", "c", "s">>

Numbers123 == JList(<<JNum(1), JNum(2), JNum(3)>>)

\* {"metrics": [1, 2, 3]}
ObjMetrics == JObj(<<KeyMetrics>>, <<Numbers123>>)

\* {"a": {"note": "}```"}, "b": null}
ObjNested ==
    JObj(<< <<"a">>, <<"b">> >>,
         << JObj(<< <<"n", "o", "t", "e">> >>, << JStr(<<"}">> \o Fence) >>), JNull >>)

\* {"cards": [true, -5, []], "name": "a \"q\" \\\n"}
ObjEscapes ==
    JObj(<< <<"c", "a", "r", "d", "s">>, <<"n", "a", "m", "e">> >>,
         << JList(<<JBool(TRUE), JNum(-5), JList(<<>>)>>),
            JStr(<<"a", " ", "\"", "q", "\"", " ", "\\", "\n">>) >>)

\* {"summary": "ok"}
ObjSummary == JObj(<< <<"s", "u", "m", "m", "a", "r", "y">> >>, << JStr(<<"o", "k">>) >>)

\* {"metrics": [1, 2, 3], "trace": {"note": "ok"}}
ObjWithTrace ==
    JObj(<<KeyMetrics, KeyTrace>>, <<Numbers123, ObjSummary>>)

\* {"trace": null, "summary": "ok"}
ObjNullTrace == JObj(<<KeyTrace, <<"s", "u", "m", "m", "a", "r", "y">>>>, <<JNull, JStr(<<"o", "k">>)>>)

Objects == {ObjMetrics, EmptyObject, ObjNested, ObjEscapes, ObjSummary,
            ObjWithTrace, ObjNullTrace}

GarbagePrefix == <<"g", "a", "r", "b", "a", "g", "e", " ", "p", "r", "e", "f", "i", "x", " ">>

\* free text holding braces and brackets
BracePrefix == <<"n", "o", "t", "e", " ", "{", "x", "}", " ", "[", "y", "]", " ">>

\* legacy reasoning blocks: closed, in capitals and holding a brace, never closed
ReasoningPlain == <<"<", "t", "h", "i", "n", "k", "i", "n", "g", ">", "p", "l", "a", "n", " ", "i", "t", "<", "/", "t", "h", "i", "n", "k", "i", "n", "g", ">", "\n">>

ReasoningBraces == <<"<", "T", "H", "I", "N", "K", "I", "N", "G", ">", "c", "o", "u", "n", "t", " ", "{", "f", "i", "l", "e", "s", "}", " ", "f", "i", "r", "s", "t", "<", "/", "T", "h", "i", "n", "k", "i", "n", "g", ">", "\n">>

ReasoningOpen == <<"<", "t", "h", "i", "n", "k", "i", "n", "g", ">", "n", "e", "v", "e", "r", " ", "c", "l", "o", "s", "e", "d", " ">>

ReasoningBlocks == {ReasoningPlain, ReasoningBraces, ReasoningOpen}

Prefixes == {<<>>, GarbagePrefix, BracePrefix} \cup ReasoningBlocks

TrailingSuffix == <<" ", "t", "r", "a", "i", "l", "i", "n", "g">>

BraceSuffix == <<"\n", "H", "o", "p", "e", " ", "}", " ", "t", "h", "i", "s", " ", "]", " ", "h", "e", "l", "p", "s">>

Suffixes == {<<>>, TrailingSuffix, BraceSuffix}

Forms == {"fenced", "raw"}

\* how many trailing characters a cut-off payload may miss
MaxCut == 30

\* "```json\n" + json.dumps(x) + "\n```"
RenderAsFencedJson(x) == FenceJson \o <<"\n">> \o Render(x) \o <<"\n">> \o Fence

Payload(x, form) == IF form = "fenced" THEN RenderAsFencedJson(x) ELSE Render(x)

DropLast(text, k) == SubSeq(text, 1, Len(text) - k)

Input(x, prefix, form, cut, suffix) ==
    [kind |-> "input", x |-> x, prefix |-> prefix, form |-> form, cut |-> cut,
     suffix |-> suffix]

\* whole payloads in every surrounding, and cut-off payloads on their own
Inputs ==
    {Input(x, prefix, form, 0, suffix) :
        x \in Objects, prefix \in Prefixes, form \in Forms, suffix \in Suffixes}
    \cup {Input(x, <<>>, form, cut, <<>>) : x \in Objects, form \in Forms, cut \in 1..MaxCut}

RawText(in) == in.prefix \o DropLast(Payload(in.x, in.form), in.cut) \o in.suffix

\* _parse_json_with_trace(raw)
ParseWithTrace ==
    /\ px_obj # NoResult
    /\ px_result = NoResult
    /\ px_result' = parse_json_with_trace(px_text)
    /\ px_tried' = parse_json_with_thought(px_text).tried
    /\ UNCHANGED <<px_obj, px_text>>
    /\ UNCHANGED <<chainVars, callVars, batchVars, execVars, mockVars, genVars, jobVars, raceVars, loopVars>>

InitParse ==
    /\ chain_state = "none"
    /\ providers = <<>>
    /\ available = <<>>
    /\ preferred_index = 0
    /\ gpc = "idle"
    /\ offset = 0
    /\ idx = 0
    /\ attempt = 0
    /\ errors = <<>>
    /\ result = NoResult
    /\ attempt_log = <<>>
    /\ sleeps = <<>>
    /\ last_success = -1
    /\ entry_preferred = 0
    /\ files = <<>>
    /\ batches = <<>>
    /\ current_batch = <<>>
    /\ current_chars = 0
    /\ file_i = 1
    /\ bpc = "idle"
    /\ plan_call = NoCall
    /\ plan_error = NoResult
    /\ job_status = "analyzing"
    /\ ExecIdle
    /\ MockIdle
    /\ GenIdle
    /\ LoopIdle
    /\ RaceIdle
    /\ JobIdle
    /\ px_obj \in Inputs
    /\ px_text = RawText(px_obj)
    /\ px_result = NoResult
    /\ px_tried = <<>>

NextParse == ParseWithTrace

SpecParse == InitParse /\ [][NextParse]_vars


HasTrace(x) == Member(x, KeyTrace).t # "missing"

Extracted == px_obj # NoResult /\ px_result # NoResult

\* a whole payload without a trace field: a fenced one in any of the
\* surroundings, one without a fence after text holding no "{" (a reasoning
\* block, garbage, nothing) and before text holding no "}"
RoundTripCase ==
    /\ Extracted
    /\ ~HasTrace(px_obj.x)
    /\ px_obj.cut = 0
    /\ \/ px_obj.form = "fenced"
       \/ Count(px_obj.prefix, "{") = 0 /\ Count(px_obj.suffix, "}") = 0

C20_WitnessReasoning ==
    /\ RoundTripCase
    /\ px_obj = Input(ObjSummary, ReasoningBraces, "fenced", 0, BraceSuffix)
    /\ px_result.kind = "return"

\* a payload without a fence behind a reasoning block has been extracted
C20_WitnessUnfenced ==
    /\ RoundTripCase
    /\ px_obj = Input(ObjNested, ReasoningPlain, "raw", 0, <<>>)
    /\ px_result.kind = "return"
    /\ px_tried = <<"direct">>


C21_WitnessUnparsable ==
    /\ Extracted
    /\ px_obj.cut > 0
    /\ px_result = Raised("ValueError")

\* a payload whose "trace" is null has been returned with the empty trace
C21_WitnessNullTrace ==
    /\ Extracted
    /\ px_obj.x = ObjNullTrace
    /\ px_result.kind = "return"
    /\ px_result.res = ObjNullTrace
    /\ px_result.trace = EmptyObject


StrategyOrder == <<"direct", "fenced", "span", "balanced", "commas", "key">>

Rank(name) == CHOOSE k \in 1..Len(StrategyOrder) : StrategyOrder[k] = name

\* the parse attempts were made in the order of the strategies
InStrategyOrder(tried) ==
    \A i, j \in 1..Len(tried) : i < j => Rank(tried[i]) <= Rank(tried[j])

\* which strategies a call that ended unparsable went through: the direct
\* parse needs a text, the balancing is reached only without a brace span
\* and the comma stripping only with one; the other three always run
RanBeforeUnparsable(raw) ==
    {"fenced", "span", "key"}
        \cup (IF CleanRaw(raw) # <<>> THEN {"direct"} ELSE {})
        \cup (IF SpanCandidate(CleanRaw(raw)).found THEN {"commas"} ELSE {"balanced"})

\* C26: the extractor makes its parse attempts in the fixed order direct
\* parse, fenced block, brace span, balancing of truncated text, trailing-comma
\* stripping, known keys, and it raises the unparsable-output error only after
\* every one of the six strategies has run and failed.
C26_AllSixInOrderBeforeUnparsable ==
    Extracted =>
        /\ InStrategyOrder(px_tried)
        /\ px_result.kind = "raise" =>
               /\ px_text # <<>>
               /\ RanBeforeUnparsable(px_text) = Range(StrategyOrder)


\* ------------------------------------------------------------------------
\* run_analysis: the job row, the job log and the heartbeat tasks
\* ------------------------------------------------------------------------
\* how many notices one heartbeat may write
MaxNotices == 2

TerminalStatuses == {"completed", "failed"}

\* everything a step of run_analysis or of a heartbeat leaves alone
jobFrame == <<chainVars, callVars, execVars, mockVars, genVars, parseVars, raceVars,
              loopVars,
              files, batches, current_batch, current_chars, file_i, bpc, plan_call,
              plan_error>>

\* add_log: the entry is appended to the list the caller's copy of job.logs holds
add_log(logs, entry) == Append(logs, entry)

MainEntry(logs) == [by |-> "main", n |-> Len(logs) + 1]

Notice(k, task) == [by |-> "beat", task |-> k, n |-> task.notes + 1]

\* session.commit() of run_analysis: the row takes the status and the log of
\* the session's job object
MainCommit(status, logs) ==
    /\ db_row' = [status |-> status, logs |-> logs]
    /\ status_log' = IF status # db_row.status THEN Append(status_log, status)
                     ELSE status_log
    /\ committed' = committed \cup Range(logs)

\* hb_session.commit(): only the log was changed
BeatCommit(logs) ==
    /\ db_row' = [db_row EXCEPT !.logs = logs]
    /\ committed' = committed \cup Range(logs)
    /\ UNCHANGED status_log

\* asyncio.create_task(heartbeat(...))
NewBeat(call) ==
    [call |-> call, state |-> "created", must_cancel |-> FALSE, logs |-> <<>>,
     notes |-> 0, call_over |-> FALSE, late |-> 0]

\* the cancellation is never asked for
Cancel_Forgotten(task) == task

\* task.cancel(): a task that has ended is left as it is
Cancel(task) ==
    IF task.state = "ended" THEN task ELSE [task EXCEPT !.must_cancel = TRUE]

\* run_analysis is suspended in an await during which a heartbeat may run
MainSuspended == jpc \in {"awaiting", "await_hb"}

Runnable(k) ==
    /\ MainSuspended
    /\ k \in 1..Len(hbs)
    /\ hbs[k].state # "ended"
    /\ ~hbs[k].must_cancel

\* the first step of the task: up to await hb_session.get(...)
BeatRun(k) ==
    /\ Runnable(k)
    /\ hbs[k].state = "created"
    /\ hbs' = [hbs EXCEPT ![k].state = "first_get"]
    /\ UNCHANGED <<jpc, jcall, jexc, job_logs, db_row, status_log, committed, job_status>>
    /\ UNCHANGED jobFrame

\* hb_session.get returned: the notice is added to the row as read, unless
\* the job has ended; an exception of the session is swallowed
BeatGot(k, ok) ==
    /\ Runnable(k)
    /\ hbs[k].state \in {"first_get", "loop_get"}
    /\ IF ok /\ db_row.status \notin TerminalStatuses
       THEN hbs' = [hbs EXCEPT ![k] =
                       [@ EXCEPT !.logs = add_log(db_row.logs, Notice(k, hbs[k])),
                                 !.notes = @ + 1,
                                 !.late = IF hbs[k].call_over THEN @ + 1 ELSE @,
                                 !.state = IF hbs[k].state = "first_get"
                                           THEN "first_commit" ELSE "loop_commit"]]
       ELSE hbs' = [hbs EXCEPT ![k].state = "sleep"]
    /\ UNCHANGED <<jpc, jcall, jexc, job_logs, db_row, status_log, committed, job_status>>
    /\ UNCHANGED jobFrame

\* hb_session.commit() returned or raised; then asyncio.sleep(1.0)
BeatCommitted(k, ok) ==
    /\ Runnable(k)
    /\ hbs[k].state \in {"first_commit", "loop_commit"}
    /\ IF ok THEN BeatCommit(hbs[k].logs)
       ELSE UNCHANGED <<db_row, status_log, committed>>
    /\ hbs' = [hbs EXCEPT ![k].state = "sleep"]
    /\ UNCHANGED <<jpc, jcall, jexc, job_logs, job_status>>
    /\ UNCHANGED jobFrame

\* the sleep is over: async with async_session(), await hb_session.get(...)
BeatWake(k) ==
    /\ Runnable(k)
    /\ hbs[k].state = "sleep"
    /\ hbs[k].notes < MaxNotices
    /\ hbs' = [hbs EXCEPT ![k].state = "loop_get"]
    /\ UNCHANGED <<jpc, jcall, jexc, job_logs, db_row, status_log, committed, job_status>>
    /\ UNCHANGED jobFrame

\* CancelledError is thrown into the task where it waits (no handler of
\* Exception catches it) and the task ends; a commit it was waiting for has
\* reached the row or not
BeatCancelled(k, landed) ==
    /\ MainSuspended
    /\ k \in 1..Len(hbs)
    /\ hbs[k].state # "ended"
    /\ hbs[k].must_cancel
    /\ IF landed /\ hbs[k].state \in {"first_commit", "loop_commit"}
       THEN BeatCommit(hbs[k].logs)
       ELSE UNCHANGED <<db_row, status_log, committed>>
    /\ hbs' = [hbs EXCEPT ![k].state = "ended"]
    /\ UNCHANGED <<jpc, jcall, jexc, job_logs, job_status>>
    /\ UNCHANGED jobFrame


\* a step of run_analysis that sets the status, adds a log entry and commits
LogAndCommit(status, next) ==
    /\ job_status' = status
    /\ job_logs' = add_log(job_logs, MainEntry(job_logs))
    /\ MainCommit(status, add_log(job_logs, MainEntry(job_logs)))
    /\ jpc' = next

\* an exception leaves for the except Exception of run_analysis
ToExcept ==
    /\ jpc' = "except"
    /\ UNCHANGED <<job_status, job_logs, db_row, status_log, committed>>

\* Stage 1: job.status = "fetching", add_log, commit
JFetching ==
    /\ jpc = "start"
    /\ LogAndCommit("fetching", "fetch")
    /\ UNCHANGED <<jcall, jexc, hbs>>
    /\ UNCHANGED jobFrame

\* the tree and the files are fetched: files, none (the job fails and
\* run_analysis returns), or an exception
JFetched(outcome) ==
    /\ jpc = "fetch"
    /\ CASE outcome = "files" -> LogAndCommit(job_status, "stage3")
         [] outcome = "no_files" -> LogAndCommit("failed", "done")
         [] outcome = "raise" -> ToExcept
    /\ UNCHANGED <<jcall, jexc, hbs>>
    /\ UNCHANGED jobFrame

\* Stage 3: job.status = "analyzing", add_log, commit; the overview is next
JAnalyzing ==
    /\ jpc = "stage3"
    /\ LogAndCommit("analyzing", "create_beat")
    /\ jcall' = "overview"
    /\ UNCHANGED <<jexc, hbs>>
    /\ UNCHANGED jobFrame

\* hb = asyncio.create_task(heartbeat(...)); try: await <the call>
JCreateBeat ==
    /\ jpc = "create_beat"
    /\ hbs' = Append(hbs, NewBeat(jcall))
    /\ jpc' = "awaiting"
    /\ UNCHANGED <<jcall, jexc, job_logs, db_row, status_log, committed, job_status>>
    /\ UNCHANGED jobFrame

\* the call returns or raises; finally: hb.cancel(), await hb
JCallEnds(outcome) ==
    /\ jpc = "awaiting"
    /\ hbs' = [hbs EXCEPT ![Len(hbs)] = Cancel([@ EXCEPT !.call_over = TRUE])]
    /\ jexc' = (outcome = "raise")
    /\ jpc' = "await_hb"
    /\ UNCHANGED <<jcall, job_logs, db_row, status_log, committed, job_status>>
    /\ UNCHANGED jobFrame

\* await hb is over; what follows the call that was monitored
JBeatAwaited ==
    /\ jpc = "await_hb"
    /\ hbs[Len(hbs)].state = "ended"
    /\ jexc' = FALSE
    /\ CASE jcall \in {"overview", "consolidate"} /\ jexc ->
              ToExcept /\ UNCHANGED jcall
         [] jcall = "overview" /\ ~jexc ->
              LogAndCommit(job_status, "plan") /\ UNCHANGED jcall
         [] jcall = "consolidate" /\ ~jexc ->
              LogAndCommit(job_status, "stage5") /\ UNCHANGED jcall
         \* except Exception of discover_batch, one file: the path-only call
         [] jcall = "batch" /\ jexc ->
              /\ job_logs' = add_log(job_logs, MainEntry(job_logs))
              /\ jcall' = "paths"
              /\ jpc' = "create_beat"
              /\ UNCHANGED <<job_status, db_row, status_log, committed>>
         \* the batch is done, with metrics or (path-only failed) without
         [] jcall = "paths" \/ (jcall = "batch" /\ ~jexc) ->
              LogAndCommit(job_status, "stage4") /\ UNCHANGED jcall
    /\ UNCHANGED hbs
    /\ UNCHANGED jobFrame

\* batches = create_batches(files, max_tokens=...)
JPlan ==
    /\ jpc = "plan"
    /\ IF BindsOk(CreateBatchesParams, {"files", "max_tokens"})
       THEN /\ LogAndCommit(job_status, "create_beat")
            /\ jcall' = "batch"
       ELSE /\ ToExcept
            /\ UNCHANGED jcall
    /\ UNCHANGED <<jexc, hbs>>
    /\ UNCHANGED jobFrame

\* Stage 4: add_log, commit; consolidate_metrics is next
JConsolidate ==
    /\ jpc = "stage4"
    /\ LogAndCommit(job_status, "create_beat")
    /\ jcall' = "consolidate"
    /\ UNCHANGED <<jexc, hbs>>
    /\ UNCHANGED jobFrame

\* Stage 5: the workspace is created, job.status = "completed", commit
JComplete(ok) ==
    /\ jpc = "stage5"
    /\ IF ok THEN LogAndCommit("completed", "select") ELSE ToExcept
    /\ UNCHANGED <<jcall, jexc, hbs>>
    /\ UNCHANGED jobFrame

\* session.execute(select(Metric)...): the metrics for reporting
JSelect(ok) ==
    /\ jpc = "select"
    /\ IF ok THEN /\ jpc' = "report"
                  /\ UNCHANGED <<job_status, job_logs, db_row, status_log, committed>>
       ELSE ToExcept
    /\ UNCHANGED <<jcall, jexc, hbs>>
    /\ UNCHANGED jobFrame

\* the gather of mock data and dashboard plan, the injection, the Metabase
\* calls with their log entries; an error in them is caught and logged by
\* the inner except Exception
JReport(ok) ==
    /\ jpc = "report"
    /\ job_logs' = IF ok THEN add_log(add_log(job_logs, MainEntry(job_logs)),
                                      MainEntry(add_log(job_logs, MainEntry(job_logs))))
                   ELSE add_log(job_logs, MainEntry(job_logs))
    /\ jpc' = "final"
    /\ UNCHANGED <<job_status, db_row, status_log, committed>>
    /\ UNCHANGED <<jcall, jexc, hbs>>
    /\ UNCHANGED jobFrame

\* add_log("Analysis complete..."), await session.commit()
JFinal(ok) ==
    /\ jpc = "final"
    /\ IF ok THEN LogAndCommit(job_status, "done") ELSE ToExcept
    /\ UNCHANGED <<jcall, jexc, hbs>>
    /\ UNCHANGED jobFrame

\* except Exception as e: job.status = "failed", commit, add_log, commit
JFail ==
    /\ jpc = "except"
    /\ LogAndCommit("failed", "done")
    /\ UNCHANGED <<jcall, jexc, hbs>>
    /\ UNCHANGED jobFrame


\* the log of the job when the batch loop begins: the entries of the stages
\* before it
LogAtLoop == [k \in 1..5 |-> [by |-> "main", n |-> k]]

\* run_analysis at its start with the job pending, and at the for statement
\* of the batch loop with the batches planned
JobStarts ==
    { [jpc |-> "start", jcall |-> "none", status |-> "pending", logs |-> <<>>,
       statuses |-> <<"pending">>],
      [jpc |-> "create_beat", jcall |-> "batch", status |-> "analyzing",
       logs |-> LogAtLoop, statuses |-> <<"pending", "fetching", "analyzing">>] }

InitJob ==
    /\ chain_state = "none"
    /\ providers = <<>>
    /\ available = <<>>
    /\ preferred_index = 0
    /\ gpc = "idle"
    /\ offset = 0
    /\ idx = 0
    /\ attempt = 0
    /\ errors = <<>>
    /\ result = NoResult
    /\ attempt_log = <<>>
    /\ sleeps = <<>>
    /\ last_success = -1
    /\ entry_preferred = 0
    /\ files = <<>>
    /\ batches = <<>>
    /\ current_batch = <<>>
    /\ current_chars = 0
    /\ file_i = 1
    /\ bpc = "idle"
    /\ plan_call = NoCall
    /\ plan_error = NoResult
    /\ ExecIdle
    /\ MockIdle
    /\ GenIdle
    /\ LoopIdle
    /\ RaceIdle
    /\ ParseIdle
    /\ \E start \in JobStarts :
          /\ jpc = start.jpc
          /\ jcall = start.jcall
          /\ job_status = start.status
          /\ job_logs = start.logs
          /\ db_row = [status |-> start.status, logs |-> start.logs]
          /\ status_log = start.statuses
          /\ committed = Range(start.logs)
    /\ jexc = FALSE
    /\ hbs = <<>>

NextJob ==
    \/ JFetching
    \/ \E outcome \in {"files", "no_files", "raise"} : JFetched(outcome)
    \/ JAnalyzing
    \/ JCreateBeat
    \/ \E outcome \in {"return", "raise"} : JCallEnds(outcome)
    \/ JBeatAwaited
    \/ JPlan
    \/ JConsolidate
    \/ \E ok \in BOOLEAN : JComplete(ok)
    \/ \E ok \in BOOLEAN : JSelect(ok)
    \/ \E ok \in BOOLEAN : JReport(ok)
    \/ \E ok \in BOOLEAN : JFinal(ok)
    \/ JFail
    \/ \E k \in 1..Len(hbs) : BeatRun(k)
    \/ \E k \in 1..Len(hbs), ok \in BOOLEAN : BeatGot(k, ok)
    \/ \E k \in 1..Len(hbs), ok \in BOOLEAN : BeatCommitted(k, ok)
    \/ \E k \in 1..Len(hbs) : BeatWake(k)
    \/ \E k \in 1..Len(hbs), landed \in BOOLEAN : BeatCancelled(k, landed)

SpecJob == InitJob /\ [][NextJob]_vars

Ended(k) == hbs[k].state = "ended"

\* the finally block of the call the task k monitors is over
FinallyOver(k) == k < Len(hbs) \/ jpc \notin {"awaiting", "await_hb"}

\* C22: a heartbeat whose monitored call has returned or raised has been
\* cancelled in the same step and writes no notice any more, and once the
\* finally block (cancel, then await of the task) is over the task has ended:
\* no heartbeat outlives the call it monitors.
C22_HeartbeatEndsWithCall ==
    \A k \in 1..Len(hbs) :
        /\ hbs[k].call_over => (hbs[k].must_cancel \/ Ended(k))
        /\ hbs[k].late = 0
        /\ FinallyOver(k) => Ended(k)

\* the heartbeat of a call that raised had written a notice and has ended,
\* and run_analysis has gone on
C22_Witness ==
    /\ Len(hbs) >= 2
    /\ hbs[1].call = "batch"
    /\ hbs[1].notes > 0
    /\ Ended(1)
    /\ jcall = "paths"
    /\ jpc = "awaiting"


StatusRank(status) ==
    CASE status = "pending" -> 1
      [] status = "fetching" -> 2
      [] status = "analyzing" -> 3
      [] status \in TerminalStatuses -> 4

\* C29: the stored status of a job only moves forward in the order pending,
\* fetching, analyzing, terminal, and a terminal status is written once:
\* after "completed" no later step of the run stores "failed".
C29_StatusMonotone ==
    \A i \in 1..(Len(status_log) - 1) :
        StatusRank(status_log[i]) < StatusRank(status_log[i + 1])

\* C30: every log entry that a commit has stored, by run_analysis or by a
\* heartbeat with its own session, is in the stored log after every later
\* commit of either task.
C30_LogAppendOnly == db_row # NoResult => committed \subseteq Range(db_row.logs)


\* ------------------------------------------------------------------------
\* Two generate calls in flight on the one chain of _get_chain
\* (asyncio.gather of generate_mock_data and generate_dashboard_plan)
\* ------------------------------------------------------------------------
\* tasks = [generate_mock_data(...), generate_dashboard_plan(...)]
GatheredCalls == 2

Callers == 1..GatheredCalls

\* the prompt each caller hands to chain.generate
PromptOf(c) == <<"prompt", c>>

\* what an adapter returns for a prompt: its own completion of that prompt
Completion(p, prompt) == [by |-> p, prompt |-> prompt]

\* how one adapter answers during the run: it is healthy, rate limited or
\* rejects the key
Healths ==
    {[kind |-> "ok"],
     [kind |-> "error", exc |-> RateLimitError],
     [kind |-> "error", exc |-> AuthError]}

\* the chains of _get_chain with at least two adapters
RaceChains == { ps \in ClassLists : Len(ps) >= 2 }

NewCall(c) ==
    [pc |-> "idle", prompt |-> PromptOf(c), offset |-> 0, idx |-> 0,
     attempt |-> 0, errors |-> <<>>, tried |-> <<>>, result |-> NoResult]

\* idx = (self._preferred_index + offset) % n, evaluated in every iteration
\* of the outer for: the shared field is read again at each offset
RaceIndex(call, off) == ProviderIndex(preferred_index, off)

\* head of the outer for at offset off, up to the next await
RaceAdvance(call, off) ==
    IF off < n
    THEN [call EXCEPT !.pc = "calling", !.offset = off,
                      !.idx = RaceIndex(call, off), !.attempt = 0,
                      !.tried = Append(call.tried, RaceIndex(call, off))]
    ELSE [call EXCEPT !.pc = "raised", !.offset = off,
                      !.result = ExhaustedError(call.errors)]

\* chain.generate(prompt) is called: errors = [], first iteration of the for
RaceBegin(c) ==
    /\ rcalls[c].pc = "idle"
    /\ rcalls' = [rcalls EXCEPT
                    ![c] = RaceAdvance(rcalls[c], 0)]
    /\ UNCHANGED <<chainVars, callVars, batchVars, execVars, mockVars, genVars,
                   parseVars, jobVars, rhealth, loopVars>>

\* await provider.generate(...) is over, and everything up to the next await
RaceAnswer(c) ==
    LET call == rcalls[c]
        p == available[call.idx + 1]
        out == rhealth[call.idx + 1]
    IN /\ call.pc = "calling"
       /\ preferred_index' = PreferredAfter(out, call.idx, preferred_index)
       /\ rcalls' = [rcalls EXCEPT ![c] =
             IF out.kind = "ok"
             THEN [call EXCEPT !.pc = "returned",
                               !.result = [kind |-> "return",
                                           text |-> Completion(p, call.prompt)]]
             ELSE LET failed == [call EXCEPT
                                   !.errors = Append(call.errors,
                                                     ErrorSummary(p, out.exc))]
                  IN IF ShouldRetry(out.exc, call.attempt)
                     THEN [failed EXCEPT !.pc = "sleeping"]
                     ELSE RaceAdvance(failed, call.offset + 1)]
       /\ UNCHANGED <<chain_state, providers, available, callVars, batchVars,
                      execVars, mockVars, genVars, parseVars, jobVars, rhealth, loopVars>>

\* await asyncio.sleep(delay) is over: next attempt on the same adapter
RaceWake(c) ==
    /\ rcalls[c].pc = "sleeping"
    /\ rcalls' = [rcalls EXCEPT ![c] = [rcalls[c] EXCEPT
                                          !.pc = "calling",
                                          !.attempt = rcalls[c].attempt + 1]]
    /\ UNCHANGED <<chainVars, callVars, batchVars, execVars, mockVars, genVars,
                   parseVars, jobVars, rhealth, loopVars>>

InitRace ==
    /\ \E ps \in RaceChains :
          /\ providers = [i \in 1..Len(ps) |-> [cls |-> ps[i], is_available |-> TRUE]]
          /\ available = ps
          /\ preferred_index \in 0..(Len(ps) - 1)
          /\ rhealth \in [1..Len(ps) -> Healths]
    /\ chain_state = "constructed"
    /\ gpc = "idle"
    /\ offset = 0
    /\ idx = 0
    /\ attempt = 0
    /\ errors = <<>>
    /\ result = NoResult
    /\ attempt_log = <<>>
    /\ sleeps = <<>>
    /\ last_success = -1
    /\ entry_preferred = 0
    /\ files = <<>>
    /\ batches = <<>>
    /\ current_batch = <<>>
    /\ current_chars = 0
    /\ file_i = 1
    /\ bpc = "idle"
    /\ plan_call = NoCall
    /\ plan_error = NoResult
    /\ job_status = "analyzing"
    /\ ExecIdle
    /\ MockIdle
    /\ GenIdle
    /\ LoopIdle
    /\ ParseIdle
    /\ JobIdle
    /\ rcalls = [c \in Callers |-> NewCall(c)]

NextRace ==
    \/ \E c \in Callers : RaceBegin(c)
    \/ \E c \in Callers : RaceAnswer(c)
    \/ \E c \in Callers : RaceWake(c)

SpecRace == InitRace /\ [][NextRace]_vars

\* the adapters the call c has contacted, by index
Contacted(c) == Range(rcalls[c].tried)

\* C23: under every interleaving of two generate calls on the shared chain
\* preferred_index is a valid index, a call that returns hands back the text
\* an adapter produced for that call's own prompt, and the race costs
\* nothing but attempts: no call gives up before it has contacted every
\* adapter of the chain.
C23_RaceOnlyWastesAttempts ==
    /\ preferred_index \in 0..(n - 1)
    /\ \A c \in DOMAIN rcalls :
          /\ rcalls[c].pc = "returned" =>
                /\ rcalls[c].result.text.prompt = rcalls[c].prompt
                /\ rcalls[c].result.text.by \in Range(available)
          /\ rcalls[c].pc = "raised" => Contacted(c) = 0..(n - 1)


\* ------------------------------------------------------------------------
\* The merge of the two halves in discover_batch
\* ------------------------------------------------------------------------
\* the right half has returned to the discover_batch that split
CombineStep ==
    /\ xpc = "in_batch"
    /\ xstack # <<>>
    /\ xret # NoResult
    /\ xret.kind = "return"
    /\ Top.pc = "wait_right"

ListOrAbsent(v) == Get(v, JList(<<>>)).t = "list"

\* both halves returned a list of metrics and lists in the trace
HalvesAreLists(l, r) ==
    /\ l.metrics.t = "list"
    /\ r.metrics.t = "list"
    /\ \A t \in {l.trace, r.trace} :
          /\ ListOrAbsent(t.batch_observations)
          /\ ListOrAbsent(t.shortlist_criteria)
          /\ ListOrAbsent(t.files_referenced)

Concatenated(l, r) == Add(Get(l, JList(<<>>)), Get(r, JList(<<>>)))

\* C25: a split cuts the batch at the midpoint into two non-empty halves
\* that together are the batch in order, the left half is processed before
\* the right half, and the merged result is the left half's metrics followed
\* by the right half's with every list field of the two traces
\* (batch_observations, shortlist_criteria, files_referenced) concatenated,
\* left first.
C25_SplitMergesByConcatenation ==
    [][ (CombineStep /\ HalvesAreLists(Top.left, xret)) =>
          /\ LeftHalf(Top.files) # <<>>
          /\ RightHalf(Top.files) # <<>>
          /\ Len(LeftHalf(Top.files)) = Len(Top.files) \div 2
          /\ LeftHalf(Top.files) \o RightHalf(Top.files) = Top.files
          /\ Top.left.kind = "return"
          /\ xret'.kind = "return"
          /\ xret'.metrics = Add(Top.left.metrics, xret.metrics)
          /\ xret'.trace.batch_observations =
                Concatenated(Top.left.trace.batch_observations,
                             xret.trace.batch_observations)
          /\ xret'.trace.shortlist_criteria =
                Concatenated(Top.left.trace.shortlist_criteria,
                             xret.trace.shortlist_criteria)
          /\ xret'.trace.files_referenced =
                Concatenated(Top.left.trace.files_referenced,
                             xret.trace.files_referenced) ]_vars


\* ------------------------------------------------------------------------
\* The order of the batches
\* ------------------------------------------------------------------------
BatchEnded(e, batch_no) == e.op \in {"return", "raise"} /\ e.batch = batch_no

\* C24: the batches of a job run strictly one after another, batch i+1
\* being started only after batch i has returned or failed, and between the
\* end of a batch and the start of the next one run_analysis sleeps for a
\* fixed delay.
C24_SequentialBatchesWithDelay ==
    \A k \in 1..Len(xtrail) :
        (xtrail[k].op = "discover_batch" /\ xtrail[k].batch > 1) =>
            \E j \in 1..(k - 1) :
                /\ BatchEnded(xtrail[j], xtrail[k].batch - 1)
                /\ \E d \in (j + 1)..(k - 1) : xtrail[d].op = "sleep"


\* ------------------------------------------------------------------------
\* The adapters behind the chain: what generate does with the backend's answer
\* ------------------------------------------------------------------------
\* message.content == ""
EmptyText == ""

\* message.content is None
NullText == "None"

NoText(t) == t \in {EmptyText, NullText}

\* what a backend sends back for one request
BackendText(t) == [kind |-> "text", text |-> t]

BackendError(e) == [kind |-> "error", exc |-> e]

BackendResponses ==
    {BackendText(t) : t \in {"ok", EmptyText, NullText}} \cup
    {BackendError(RateLimitError)}

Healthy(r) == r.kind = "text" /\ ~NoText(r.text)

\* str(TypeError) of a call with a keyword the function does not declare
MsgUnexpectedKeyword ==
    <<"O", "p", "e", "n", "R", "o", "u", "t", "e", "r", "P", "r", "o", "v",
      "i", "d", "e", "r", ".", "g", "e", "n", "e", "r", "a", "t", "e", "(",
      ")", " ", "g", "o", "t", " ", "a", "n", " ", "u", "n", "e", "x", "p",
      "e", "c", "t", "e", "d", " ", "k", "e", "y", "w", "o", "r", "d", " ",
      "a", "r", "g", "u", "m", "e", "n", "t", " ", "'", "m", "o", "d", "e",
      "l", "_", "o", "v", "e", "r", "r", "i", "d", "e", "'">>

UnexpectedKeyword == [type |-> "TypeError", msg |-> MsgUnexpectedKeyword]

\* provider.generate(prompt, temperature, model_override=model_override)
ChainCallKeywords == {"model_override"}

\* the parameters of each adapter's generate
GenerateParams(cls) ==
    IF cls = "OpenRouterProvider"
    THEN {"prompt", "temperature"}
    ELSE {"prompt", "temperature", "model_override"}

AdapterOk(t, r) == [kind |-> "ok", text |-> t, backend |-> r]

AdapterRaises(e, r) == [kind |-> "error", exc |-> e, backend |-> r]

\* len(max_tokens_by_attempt)
GEMINI_ATTEMPTS == 3

\* GeminiProvider.generate: up to three requests; text that is empty after
\* strip() raises the ValueError, every exception is kept as last_err and
\* the last one is raised when the attempts are used up
RECURSIVE GeminiAttempt(_, _)
GeminiAttempt(responses, k) ==
    LET r == responses[k] IN
    IF Healthy(r)
    THEN AdapterOk(r.text, r)
    ELSE IF k < GEMINI_ATTEMPTS
    THEN GeminiAttempt(responses, k + 1)
    ELSE AdapterRaises(IF r.kind = "text" THEN EmptyResponseError ELSE r.exc, r)

\* GroqProvider, OpenRouterProvider, OllamaProvider: one request, and
\* return response.choices[0].message.content (data[...]) as it is
PassThrough(r) ==
    IF r.kind = "text" THEN AdapterOk(r.text, r) ELSE AdapterRaises(r.exc, r)

\* await provider.generate(prompt, temperature, model_override=...) for the
\* answers the backend gives to the requests of this call
AdapterGenerate(cls, responses) ==
    IF ~BindsOk(GenerateParams(cls), ChainCallKeywords)
    THEN AdapterRaises(UnexpectedKeyword, responses[1])
    ELSE IF cls = "GeminiProvider"
    THEN GeminiAttempt(responses, 1)
    ELSE PassThrough(responses[1])

\* the requests one generate call can send to its backend
Requests(cls) == IF cls = "GeminiProvider" THEN GEMINI_ATTEMPTS ELSE 1

InvokeAdapter ==
    /\ gpc = "invoke"
    /\ \E responses \in [1..Requests(available[idx + 1]) -> BackendResponses] :
          Attempt(AdapterGenerate(available[idx + 1], responses))

\* the chains of one or two adapters
AdapterChains == { cl \in ClassLists : Len(cl) \in 1..2 }

InitAdapter ==
    /\ \E ps \in AdapterChains :
          /\ providers = [i \in 1..Len(ps) |-> [cls |-> ps[i], is_available |-> TRUE]]
          /\ available = ps
    /\ chain_state = "constructed"
    /\ preferred_index = 0
    /\ gpc = "idle"
    /\ offset = 0
    /\ idx = 0
    /\ attempt = 0
    /\ errors = <<>>
    /\ result = NoResult
    /\ attempt_log = <<>>
    /\ sleeps = <<>>
    /\ last_success = -1
    /\ entry_preferred = 0
    /\ files = <<>>
    /\ batches = <<>>
    /\ current_batch = <<>>
    /\ current_chars = 0
    /\ file_i = 1
    /\ bpc = "idle"
    /\ plan_call = NoCall
    /\ plan_error = NoResult
    /\ job_status = "analyzing"
    /\ ExecIdle
    /\ MockIdle
    /\ GenIdle
    /\ ParseIdle
    /\ JobIdle
    /\ RaceIdle
    /\ LoopIdle

NextAdapter ==
    \/ BeginGenerate
    \/ NextProvider
    \/ InvokeAdapter
    \/ Wake

SpecAdapter == InitAdapter /\ [][NextAdapter]_vars

\* C27: an adapter whose backend returned no text at all raises an error
\* the chain takes for retriable, and chain.generate never returns an empty
\* or null completion as a success.
C27_EmptyResponseIsRetriable ==
    /\ \A k \in 1..Len(attempt_log) :
          LET out == attempt_log[k].outcome IN
          (out.backend.kind = "text" /\ NoText(out.backend.text)) =>
              out.kind = "error" /\ is_retriable(out.exc)
    /\ result.kind = "return" => ~NoText(result.text)

\* C28: every adapter accepts the call the chain issues: an adapter whose
\* backend is healthy returns that completion on the first attempt, and no
\* failure and no sleep is recorded for it.
C28_CallShapeAccepted ==
    \A k \in 1..Len(attempt_log) :
        LET out == attempt_log[k].outcome IN
        Healthy(out.backend) =>
            /\ out.kind = "ok"
            /\ out.text = out.backend.text

====
